---- MODULE Spec2Model ----
(***************************************************************************)
(* FeedPulse (src/src/index.ts, src/schema.sql): the feedback store, the   *)
(* ingestion path and the aggregation / query handlers, as a state machine.*)
(*                                                                         *)
(* Conventions.  A JavaScript or SQL string that the code inspects         *)
(* character by character (themes, timestamps, query parameters) is a      *)
(* sequence of one-character strings.  Enumerated columns (source,         *)
(* sentiment, category) and opaque texts (content) are atomic strings.     *)
(* A JavaScript value is a record [t |-> type, v |-> payload].  A nullable *)
(* parameter or column is a sequence of length 0 (null) or 1.              *)
(***************************************************************************)
EXTENDS Integers, Sequences, FiniteSets

VARIABLES
    store,      \* the rows of table feedback, in rowid order
    lastId,     \* sqlite_sequence of the AUTOINCREMENT key
    now,        \* the clock, in s since 2026-01-01T00:00:00.000Z
    posted,     \* number of POST /api/feedback requests handled
    seeded,     \* number of POST /api/seed requests handled
    ticks,      \* number of clock advances
    resp,       \* the response of the last request handled
    walk,       \* a client reading GET /api/feedback page by page
    call,       \* the classifier's answer to the last env.AI.run
    seeding,    \* the running POST /api/seed: 0 for none, else its next INSERT
    inflight    \* the request that is between two of its statements, if any

vars == <<store, lastId, now, posted, seeded, ticks, resp, walk, call, seeding, inflight>>

-----------------------------------------------------------------------------
(* Bounds of the model *)

MaxPosts == 3          \* submissions, aggregation specification
MaxTicks == 1          \* clock advances
MaxStatPosts == 6      \* submissions, statistics specification
MaxPagePosts == 4      \* submissions, paging specification
MaxWalkPosts == 3      \* submissions, page-walk specification
MaxFilterPosts == 2    \* submissions, filter specification
MaxDatePosts == 2      \* submissions, date-range specification
MaxDateTicks == 2      \* clock advances, date-range specification
MaxTrendRows == 20     \* rows of the largest store, sentiment-trend specification
MidTrendRows == 11     \* rows of the middle store, sentiment-trend specification
MaxMixedRows == 5      \* rows of the small stores, whose halves mix all sentiments
MaxThemeRows == 2      \* rows of the store, invalid-themes specification
MaxClassifyPosts == 1  \* submissions, classifier specification
MaxMarkPosts == 1      \* submissions, addressed specification
MaxSeeds == 1          \* POST /api/seed requests, addressed specification
MaxInputPosts == 3     \* submissions, validation specification
MaxSnapPosts == 3      \* submissions, snapshot specification
MaxGroupPosts == 4     \* submissions, theme-groups specification
MaxRoutePosts == 1     \* submissions, router specification
MaxRouteSeeds == 1     \* POST /api/seed requests, router specification
MaxRemarkPosts == 2    \* submissions, repeated-mark specification
MaxRemarkTicks == 2    \* clock steps, repeated-mark specification
MaxRacePosts == 2      \* submissions, concurrent-marks specification
MaxRaceTicks == 1      \* clock steps, concurrent-marks specification
MaxRankPosts == 3      \* submissions, theme-ranking specification
MaxRankTicks == 1      \* clock steps, theme-ranking specification
MaxSeedPosts == 1      \* submissions, reseed specification
MaxReseeds == 2        \* POST /api/seed requests, reseed specification
MaxRejects == 1        \* statements the database rejects in one reseed
LimbBits == 15         \* binary digits of one digit of a number
IntLimbs == 1          \* digits before the point of a number
FracLimbs == 5         \* digits after the point of a number

-----------------------------------------------------------------------------
(* Characters and strings *)

DigitChars == <<"0", "1", "2", "3", "4", "5", "6", "7", "8", "9">>
UpperChars == <<"A", "B", "C", "D", "E", "F", "G", "H", "I", "J", "K", "L", "M",
                "N", "O", "P", "Q", "R", "S", "T", "U", "V", "W", "X", "Y", "Z">>
LowerChars == <<"a", "b", "c", "d", "e", "f", "g", "h", "i", "j", "k", "l", "m",
                "n", "o", "p", "q", "r", "s", "t", "u", "v", "w", "x", "y", "z">>
WhiteChars == {" ", "\t", "\n"}

IsDigit(c) == \E i \in 1..10 : DigitChars[i] = c
DigitValue(c) == (CHOOSE i \in 1..10 : DigitChars[i] = c) - 1

Range(s) == {s[i] : i \in DOMAIN s}

Min(a, b) == IF a < b THEN a ELSE b
Max(a, b) == IF a > b THEN a ELSE b

\* String.prototype.toLowerCase
ToLowerCase(s) ==
    [i \in DOMAIN s |->
        IF \E k \in 1..26 : UpperChars[k] = s[i]
        THEN LowerChars[CHOOSE k \in 1..26 : UpperChars[k] = s[i]]
        ELSE s[i]]

\* String.prototype.trim
Trim(s) ==
    LET keep == {i \in DOMAIN s : s[i] \notin WhiteChars}
    IN  IF keep = {} THEN <<>>
        ELSE LET lo == CHOOSE i \in keep : \A j \in keep : i <= j
                 hi == CHOOSE i \in keep : \A j \in keep : i >= j
             IN  SubSeq(s, lo, hi)

\* Code points of the characters that occur in timestamps
CharCode(c) ==
    CASE c = " " -> 32
      [] c = "-" -> 45
      [] c = "." -> 46
      [] IsDigit(c) -> 48 + DigitValue(c)
      [] c = ":" -> 58
      [] c = "T" -> 84
      [] c = "Z" -> 90

\* SQLite's BINARY collation on TEXT: memcmp, then the shorter first.
\* -1, 0 or 1 as a is less than, equal to or greater than b.
RECURSIVE TextCompare(_, _)
TextCompare(a, b) ==
    IF a = <<>> /\ b = <<>> THEN 0
    ELSE IF a = <<>> THEN -1
    ELSE IF b = <<>> THEN 1
    ELSE IF CharCode(Head(a)) < CharCode(Head(b)) THEN -1
    ELSE IF CharCode(Head(a)) > CharCode(Head(b)) THEN 1
    ELSE TextCompare(Tail(a), Tail(b))

-----------------------------------------------------------------------------
(* Time: Date, toISOString and SQLite's datetime('now') *)

SecPerHour == 60 * 60
SecPerDay == 24 * SecPerHour

DaysInMonth == <<31, 28, 31, 30, 31, 30, 31, 31, 30, 31, 30, 31>>

RECURSIVE MonthDay(_, _)
MonthDay(d, m) ==
    IF d < DaysInMonth[m] THEN <<m, d + 1>> ELSE MonthDay(d - DaysInMonth[m], m + 1)

Pad2(n) == <<DigitChars[(n \div 10) + 1], DigitChars[(n % 10) + 1]>>
Pad3(n) == <<DigitChars[(n \div 100) + 1]>> \o Pad2(n % 100)

\* The calendar date of an instant of 2026 or of December 2025
DatePart(sec) ==
    LET d == sec \div SecPerDay
        md == MonthDay(d, 1)
    IN  IF d < 0
        THEN <<"2", "0", "2", "5", "-", "1", "2", "-">> \o Pad2(32 + d)
        ELSE <<"2", "0", "2", "6", "-">> \o Pad2(md[1]) \o <<"-">> \o Pad2(md[2])

TimePart(sec) ==
    LET s == sec % SecPerDay
    IN  Pad2(s \div 3600) \o <<":">> \o Pad2((s % 3600) \div 60) \o <<":">> \o Pad2(s % 60)

\* schema.sql: created_at TEXT DEFAULT (datetime('now'))  ->  YYYY-MM-DD HH:MM:SS
SqliteDatetimeNow(sec) == DatePart(sec) \o <<" ">> \o TimePart(sec)

\* Date.prototype.toISOString  ->  YYYY-MM-DDTHH:MM:SS.sssZ.  The clock of the
\* model runs in whole seconds, so sss is 000.
toISOString(sec) ==
    DatePart(sec) \o <<"T">> \o TimePart(sec) \o <<".">> \o Pad3(0) \o <<"Z">>

-----------------------------------------------------------------------------
(* JavaScript values and JSON *)

JsString(s) == [t |-> "string", v |-> s]
JsNumber(tenths) == [t |-> "number", v |-> tenths]    \* a finite number, in tenths
JsNaN == [t |-> "nan", v |-> 0]
JsNull == [t |-> "null", v |-> 0]
JsUndefined == [t |-> "undefined", v |-> 0]
JsArray(a) == [t |-> "array", v |-> a]

\* Number.prototype.toString of a finite number held in tenths
RECURSIVE NatToString(_)
NatToString(n) ==
    IF n < 10 THEN <<DigitChars[n + 1]>>
    ELSE NatToString(n \div 10) \o <<DigitChars[(n % 10) + 1]>>

NumberToString(tenths) ==
    LET m == IF tenths < 0 THEN -tenths ELSE tenths
        whole == NatToString(m \div 10)
        frac == IF m % 10 = 0 THEN <<>> ELSE <<".", DigitChars[(m % 10) + 1]>>
    IN  (IF tenths < 0 THEN <<"-">> ELSE <<>>) \o whole \o frac

\* String(x)
JsToString(x) ==
    CASE x.t = "string" -> x.v
      [] x.t = "number" -> NumberToString(x.v)
      [] x.t = "nan" -> <<"N", "a", "N">>
      [] x.t = "null" -> <<"n", "u", "l", "l">>
      [] x.t = "undefined" -> <<"u", "n", "d", "e", "f", "i", "n", "e", "d">>

\* JSON text is a sequence of tokens [tok, s]; s is the text of a string token.
Tok(k) == [tok |-> k, s |-> <<>>]
StrTok(s) == [tok |-> "str", s |-> s]

\* JSON.stringify of an array of strings
RECURSIVE StringifyItems(_)
StringifyItems(a) ==
    IF a = <<>> THEN <<>>
    ELSE IF Len(a) = 1 THEN <<StrTok(a[1])>>
    ELSE <<StrTok(a[1]), Tok(",")>> \o StringifyItems(Tail(a))

JSONStringify(a) == <<Tok("[")>> \o StringifyItems(a) \o <<Tok("]")>>

\* JSON.parse: [ok |-> FALSE] for a SyntaxError, else the value.
RECURSIVE ParseItems(_)
ParseItems(ts) ==
    \* ts: the tokens between the brackets; the items, or <<"error">>
    IF ts = <<>> THEN [ok |-> TRUE, items |-> <<>>]
    ELSE IF ts[1].tok # "str" THEN [ok |-> FALSE, items |-> <<>>]
    ELSE IF Len(ts) = 1 THEN [ok |-> TRUE, items |-> <<JsString(ts[1].s)>>]
    ELSE IF ts[2].tok # "," \/ Len(ts) = 2 THEN [ok |-> FALSE, items |-> <<>>]
    ELSE LET rest == ParseItems(SubSeq(ts, 3, Len(ts)))
         IN  [ok |-> rest.ok, items |-> <<JsString(ts[1].s)>> \o rest.items]

JSONParse(text) ==
    IF Len(text) = 1 /\ text[1].tok = "str"
    THEN [ok |-> TRUE, value |-> JsString(text[1].s)]
    ELSE IF Len(text) >= 2 /\ text[1].tok = "[" /\ text[Len(text)].tok = "]"
    THEN LET p == ParseItems(SubSeq(text, 2, Len(text) - 1))
         IN  [ok |-> p.ok, value |-> JsArray(p.items)]
    ELSE [ok |-> FALSE, value |-> JsUndefined]

-----------------------------------------------------------------------------
(* The classifier gateway: analyzeFeedback *)

validSentiments == {"positive", "negative", "neutral"}
validCategories == {"bug", "feature", "praise", "complaint"}
validSources == {"twitter", "discord", "github", "support"}

ThemeLimit == 5
DefaultPriority == 3

\* The object JSON.parse returns, reduced to the four fields the code reads.
Analysis(s, c, p, th) == [sentiment |-> s, category |-> c, priority |-> p, themes |-> th]
NoObject == Analysis(JsUndefined, JsUndefined, JsUndefined, JsUndefined)

\* The response text, cut into pieces: "junk" is prose without braces, "open"
\* a lone {, "close" a lone }, "obj" the text of one well-formed JSON object.
Piece(k) == [k |-> k, o |-> NoObject]
ObjPiece(o) == [k |-> "obj", o |-> o]

\* text.match(/\{[\s\S]*\}/): from the first { to the last } after it (greedy);
\* <<>> when there is no match.
MatchJson(text) ==
    LET opens == {i \in DOMAIN text : text[i].k \in {"open", "obj"}}
    IN  IF opens = {} THEN <<>>
        ELSE LET first == CHOOSE i \in opens : \A j \in opens : i <= j
                 closes == {j \in DOMAIN text : /\ text[j].k \in {"close", "obj"}
                                                /\ j >= first
                                                /\ (j = first => text[j].k = "obj")}
             IN  IF closes = {} THEN <<>>
                 ELSE SubSeq(text, first, CHOOSE j \in closes : \A k \in closes : k <= j)

\* A lenient parser: the first object of the span, its neighbours ignored
ParseFirstObject(span) ==
    IF \E i \in DOMAIN span : span[i].k = "obj"
    THEN [ok |-> TRUE,
          value |-> span[CHOOSE i \in DOMAIN span :
                            span[i].k = "obj" /\ \A j \in 1..(i - 1) : span[j].k # "obj"].o]
    ELSE [ok |-> FALSE, value |-> NoObject]

\* JSON.parse of the matched span: it is JSON only if it is one object, or
\* the two braces of the empty object.
ParseSpan(span) ==
    IF Len(span) = 1 /\ span[1].k = "obj"
    THEN [ok |-> TRUE, value |-> span[1].o]
    ELSE IF Len(span) = 2 /\ span[1].k = "open" /\ span[2].k = "close"
    THEN [ok |-> TRUE, value |-> NoObject]
    ELSE [ok |-> FALSE, value |-> NoObject]

\* StringToNumber on decimal literals with at most one fractional digit
\* (in tenths); anything else is NaN.
RECURSIVE DigitsValue(_)
DigitsValue(ds) ==
    IF ds = <<>> THEN 0 ELSE 10 * DigitsValue(SubSeq(ds, 1, Len(ds) - 1)) + DigitValue(ds[Len(ds)])

\* The digits before and after the decimal point of an unsigned literal
IntegerDigits(u, dots) ==
    IF dots = {} THEN u ELSE SubSeq(u, 1, (CHOOSE i \in dots : TRUE) - 1)

FractionDigits(u, dots) ==
    IF dots = {} THEN <<>> ELSE SubSeq(u, (CHOOSE i \in dots : TRUE) + 1, Len(u))

\* StrDecimalLiteral: digits with at most one point and a digit on one side
\* of it (the model carries one decimal place)
NumberOfParts(neg, dots, ip, fp) ==
    IF /\ Cardinality(dots) <= 1
       /\ \A i \in DOMAIN ip : IsDigit(ip[i])
       /\ \A i \in DOMAIN fp : IsDigit(fp[i])
       /\ Len(ip) + Len(fp) >= 1
       /\ Len(fp) <= 1
    THEN JsNumber((IF neg THEN -1 ELSE 1) * (10 * DigitsValue(ip) + DigitsValue(fp)))
    ELSE JsNaN

NumberOfUnsigned(neg, u, dots) ==
    NumberOfParts(neg, dots, IntegerDigits(u, dots), FractionDigits(u, dots))

NumberOfTrimmed(s) ==
    IF s = <<>> THEN JsNumber(0)
    ELSE IF s[1] \in {"-", "+"}
    THEN NumberOfUnsigned(s[1] = "-", Tail(s), {i \in DOMAIN Tail(s) : Tail(s)[i] = "."})
    ELSE NumberOfUnsigned(FALSE, s, {i \in DOMAIN s : s[i] = "."})

\* StringToNumber: white space trimmed, "" is 0, a decimal literal, else NaN
StringToNumber(str) == NumberOfTrimmed(Trim(str))

\* ToNumber, the coercion Math.round applies to its argument
ToNumber(x) ==
    CASE x.t = "number" -> x
      [] x.t = "nan" -> JsNaN
      [] x.t = "undefined" -> JsNaN
      [] x.t = "null" -> JsNumber(0)
      [] x.t = "string" -> StringToNumber(x.v)
      [] x.t = "array" ->
            IF x.v = <<>> THEN JsNumber(0)
            ELSE IF Len(x.v) = 1 /\ x.v[1].t \in {"string", "number"}
            THEN StringToNumber(JsToString(x.v[1]))
            ELSE JsNaN

\* Math.round: to the nearest integer, halves towards +Infinity
RoundNumber(n) ==
    IF n.t = "nan" THEN JsNaN ELSE JsNumber(((n.v + 5) \div 10) * 10)

MathRound(x) == RoundNumber(ToNumber(x))

\* r || 3 without Math.min and Math.max
UnclampedPriority(r) ==
    IF r.t = "nan" \/ r.v = 0 THEN DefaultPriority ELSE r.v \div 10

\* r || 3, then Math.min(5, Math.max(1, .)): an integer
ClampPriority(r) ==
    Min(5, Max(1, IF r.t = "nan" \/ r.v = 0 THEN DefaultPriority ELSE r.v \div 10))

\* Math.min(5, Math.max(1, Math.round(analysis.priority) || 3))
SanitizePriority(p) == ClampPriority(MathRound(p))

\* analysis.themes.slice(0, 5).map((t) => String(t).toLowerCase().trim())
SanitizeThemes(th) ==
    IF th.t = "array"
    THEN [i \in 1..Min(ThemeLimit, Len(th.v)) |-> Trim(ToLowerCase(JsToString(th.v[i])))]
    ELSE <<>>

SanitizeSentiment(x) ==
    IF x.t = "string" /\ x.v \in validSentiments THEN x.v ELSE "neutral"

SanitizeCategory(x) ==
    IF x.t = "string" /\ x.v \in validCategories THEN x.v ELSE "complaint"

DefaultAnalysis ==
    [sentiment |-> "neutral", category |-> "complaint", priority |-> DefaultPriority,
     themes |-> <<>>]

\* The sanitized analysis, or the default when JSON.parse throws
AnalysisOfParsed(parsed) ==
    IF ~parsed.ok THEN DefaultAnalysis
    ELSE [sentiment |-> SanitizeSentiment(parsed.value.sentiment),
          category |-> SanitizeCategory(parsed.value.category),
          priority |-> SanitizePriority(parsed.value.priority),
          themes |-> SanitizeThemes(parsed.value.themes)]

\* if (jsonMatch) { ... } else the default
AnalysisOfSpan(span) ==
    IF span = <<>> THEN DefaultAnalysis ELSE AnalysisOfParsed(ParseSpan(span))

\* ai: [ok |-> whether ai.run resolved, text |-> the response text]
analyzeFeedback(ai) ==
    IF ~ai.ok THEN DefaultAnalysis ELSE AnalysisOfSpan(MatchJson(ai.text))

-----------------------------------------------------------------------------
(* The store: table feedback of schema.sql *)

SqlNull == <<>>
SqlValue(x) == <<x>>

\* INSERT INTO feedback (source, content, sentiment, category, priority, themes):
\* the row the table gains, with the schema's defaults for the other columns.
NewRow(id, source, content, a, themesText, sec) ==
    [id |-> id, source |-> source, content |-> content,
     sentiment |-> a.sentiment, category |-> a.category, priority |-> a.priority,
     created_at |-> SqliteDatetimeNow(sec), themes |-> themesText,
     addressed |-> 0, addressed_at |-> SqlNull]

\* The CHECK constraints of the table
ChecksPass(row) ==
    /\ row.source \in validSources
    /\ row.sentiment \in validSentiments
    /\ row.category \in validCategories
    /\ row.priority >= 1 /\ row.priority <= 5

\* The row as a handler returns it: themes parsed back from its JSON text
WithParsedThemes(row) == [row EXCEPT !.themes = JSONParse(row.themes).value]

Response(h, status, body) == [handler |-> h, status |-> status, body |-> body]
ErrorBody(msg) == [error |-> msg]

\* No request is between two of its statements
NoFlight == [handler |-> "none"]

-----------------------------------------------------------------------------
(* A JavaScript object used as a map from strings to numbers *)

\* The object: its own keys in creation order, and their values.
EmptyObject == [keys |-> <<>>, vals |-> <<>>]

\* Names every object inherits from Object.prototype.  Of these the inputs of
\* this model contain "__proto__" only.
protoKey == <<"_", "_", "p", "r", "o", "t", "o", "_", "_">>
InheritedKeys == {protoKey}

HasOwn(o, k) == \E i \in DOMAIN o.keys : o.keys[i] = k
OwnIndex(o, k) == CHOOSE i \in DOMAIN o.keys : o.keys[i] = k

\* An array index in the sense of ECMAScript's OrdinaryOwnPropertyKeys: the
\* canonical decimal text of an integer below 2^32 - 1 (here: of up to 9 digits).
IsArrayIndex(k) ==
    /\ k # <<>>
    /\ \A i \in DOMAIN k : IsDigit(k[i])
    /\ (Len(k) > 1 => k[1] # "0")
    /\ Len(k) <= 9

\* Object.entries(o): the integer keys in ascending numeric order, then the
\* other keys in creation order; a sequence of <<key, value>>.
RECURSIVE InsertByIndex(_, _)
InsertByIndex(sorted, e) ==
    IF sorted = <<>> THEN <<e>>
    ELSE IF DigitsValue(e[1]) < DigitsValue(Head(sorted)[1]) THEN <<e>> \o sorted
    ELSE <<Head(sorted)>> \o InsertByIndex(Tail(sorted), e)

RECURSIVE EntriesFrom(_, _, _, _)
EntriesFrom(o, i, ints, strs) ==
    IF i > Len(o.keys) THEN ints \o strs
    ELSE LET e == <<o.keys[i], o.vals[i]>>
         IN  IF IsArrayIndex(o.keys[i])
             THEN EntriesFrom(o, i + 1, InsertByIndex(ints, e), strs)
             ELSE EntriesFrom(o, i + 1, ints, Append(strs, e))

ObjectEntries(o) == EntriesFrom(o, 1, <<>>, <<>>)

\* o[k] = (o[k] || 0) + 1.  For an inherited name o[k] is an object, the sum
\* is a string, and assigning a string to __proto__ creates no property.
Increment(o, k) ==
    IF HasOwn(o, k)
    THEN [o EXCEPT !.vals[OwnIndex(o, k)] = @ + 1]
    ELSE IF k \in InheritedKeys THEN o
    ELSE [keys |-> Append(o.keys, k), vals |-> Append(o.vals, 1)]

\* Array.prototype.sort((a, b) => b[1] - a[1]): by value descending, and
\* stable, so entries of equal value keep their order.
RECURSIVE InsertDesc(_, _)
InsertDesc(sorted, e) ==
    IF sorted = <<>> THEN <<e>>
    ELSE IF e[2] > Head(sorted)[2] THEN <<e>> \o sorted
    ELSE <<Head(sorted)>> \o InsertDesc(Tail(sorted), e)

RECURSIVE SortByCountDesc(_)
SortByCountDesc(es) ==
    IF es = <<>> THEN <<>>
    ELSE InsertDesc(SortByCountDesc(SubSeq(es, 1, Len(es) - 1)), es[Len(es)])

Slice(s, n) == SubSeq(s, 1, Min(n, Len(s)))

-----------------------------------------------------------------------------
(* Theme extraction, the loop the aggregation handlers share *)

\* themes.forEach((theme) => { const t = theme.toLowerCase().trim(); if (t) ... }):
\* the keys t for which the guarded body runs.  A theme that is no string has
\* no toLowerCase, and the TypeError ends the loop.
RECURSIVE ReachedKeys(_, _)
ReachedKeys(items, i) ==
    IF i > Len(items) THEN <<>>
    ELSE IF items[i].t # "string" THEN <<>>
    ELSE LET t == Trim(ToLowerCase(items[i].v))
         IN  (IF t # <<>> THEN <<t>> ELSE <<>>) \o ReachedKeys(items, i + 1)

\* The try block for one row: a JSON.parse error, or a value that is no
\* array, reaches no key.
RowThemeKeys(themesText) ==
    LET parsed == JSONParse(themesText)
    IN  IF parsed.ok /\ parsed.value.t = "array" THEN ReachedKeys(parsed.value.v, 1) ELSE <<>>

RECURSIVE IncrementAll(_, _, _)
IncrementAll(o, ks, i) ==
    IF i > Len(ks) THEN o ELSE IncrementAll(Increment(o, ks[i]), ks, i + 1)

\* themeCounts after rows.forEach(...)
RECURSIVE CountThemesFrom(_, _, _)
CountThemesFrom(o, rows, i) ==
    IF i > Len(rows) THEN o
    ELSE CountThemesFrom(IncrementAll(o, RowThemeKeys(rows[i].themes), 1), rows, i + 1)

CountThemes(rows) == CountThemesFrom(EmptyObject, rows, 1)

-----------------------------------------------------------------------------
(* SQL queries *)

\* SQLite leaves the order of rows with equal ORDER BY keys undefined.  The
\* two orders it produces here are by rowid ascending (a sorter fed by a
\* forward scan) and by rowid descending (a backward index scan).
TieOrders == {"rowid asc", "rowid desc"}

Reverse(s) == [i \in DOMAIN s |-> s[Len(s) + 1 - i]]

\* ORDER BY created_at DESC
CreatedBefore(a, b) == TextCompare(a.created_at, b.created_at) = 1

\* ORDER BY priority DESC alone: the second sort key forgotten
PriorityOnlyBefore(a, b) == a.priority > b.priority

\* ORDER BY priority DESC, created_at DESC
PriorityCreatedBefore(a, b) ==
    \/ a.priority > b.priority
    \/ a.priority = b.priority /\ CreatedBefore(a, b)

RowBefore(order, a, b) ==
    IF order = "created_at DESC" THEN CreatedBefore(a, b) ELSE PriorityCreatedBefore(a, b)

RECURSIVE InsertRow(_, _, _)
InsertRow(order, sorted, r) ==
    IF sorted = <<>> THEN <<r>>
    ELSE IF RowBefore(order, r, Head(sorted)) THEN <<r>> \o sorted
    ELSE <<Head(sorted)>> \o InsertRow(order, Tail(sorted), r)

RECURSIVE SortRows(_, _)
SortRows(order, rows) ==
    IF rows = <<>> THEN <<>>
    ELSE InsertRow(order, SortRows(order, SubSeq(rows, 1, Len(rows) - 1)), rows[Len(rows)])

\* rows ORDER BY order; rows with equal keys in the tie order
OrderBy(rows, order, tie) ==
    SortRows(order, IF tie = "rowid asc" THEN rows ELSE Reverse(rows))

\* LIMIT n OFFSET k
LimitOffset(rows, n, k) == SubSeq(rows, k + 1, Min(Len(rows), k + n))

\* SELECT col, COUNT(*) as count FROM feedback GROUP BY col
GroupCount(rows, col) ==
    {[key |-> v, count |-> Cardinality({i \in DOMAIN rows : rows[i][col] = v})] :
        v \in {rows[i][col] : i \in DOMAIN rows}}

-----------------------------------------------------------------------------
(* POST /api/seed *)

\* The demo rows of handleSeed, in array order.  content stands for the text.
mockFeedback == <<
    [source |-> "github", content |-> "mock 01", sentiment |-> "negative", category |-> "bug",
     priority |-> 5,
     themes |-> <<<<"a", "p", "i">>,
                 <<"d", "e", "p", "l", "o", "y", "m", "e", "n", "t">>,
                 <<"p", "e", "r", "f", "o", "r", "m", "a", "n", "c", "e">>>>],
    [source |-> "discord", content |-> "mock 02", sentiment |-> "negative", category |-> "bug",
     priority |-> 5,
     themes |-> <<<<"w", "o", "r", "k", "e", "r", "s", " ", "a", "i">>,
                 <<"r", "e", "l", "i", "a", "b", "i", "l", "i", "t", "y">>>>],
    [source |-> "support", content |-> "mock 03", sentiment |-> "negative", category |-> "bug",
     priority |-> 5,
     themes |-> <<<<"d", "1">>,
                 <<"d", "a", "t", "a", "b", "a", "s", "e">>,
                 <<"e", "r", "r", "o", "r", "s">>>>],
    [source |-> "github", content |-> "mock 04", sentiment |-> "negative", category |-> "bug",
     priority |-> 4,
     themes |-> <<<<"w", "r", "a", "n", "g", "l", "e", "r">>,
                 <<"d", "e", "v", "e", "l", "o", "p", "m", "e", "n", "t">>,
                 <<"d", "o", "m", "a", "i", "n", "s">>>>],
    [source |-> "twitter", content |-> "mock 05", sentiment |-> "negative", category |-> "bug",
     priority |-> 4,
     themes |-> <<<<"r", "e", "l", "i", "a", "b", "i", "l", "i", "t", "y">>,
                 <<"d", "o", "w", "n", "t", "i", "m", "e">>>>],
    [source |-> "support", content |-> "mock 06", sentiment |-> "negative", category |-> "bug",
     priority |-> 4,
     themes |-> <<<<"k", "v">>,
                 <<"c", "a", "c", "h", "i", "n", "g">>,
                 <<"s", "t", "o", "r", "a", "g", "e">>>>],
    [source |-> "github", content |-> "mock 07", sentiment |-> "negative", category |-> "bug",
     priority |-> 3,
     themes |-> <<<<"t", "y", "p", "e", "s", "c", "r", "i", "p", "t">>,
                 <<"w", "r", "a", "n", "g", "l", "e", "r">>,
                 <<"d", "x">>>>],
    [source |-> "discord", content |-> "mock 08", sentiment |-> "negative", category |-> "bug",
     priority |-> 3,
     themes |-> <<<<"d", "a", "s", "h", "b", "o", "a", "r", "d">>,
                 <<"a", "u", "t", "h", "e", "n", "t", "i", "c", "a", "t", "i", "o", "n">>>>],
    [source |-> "twitter", content |-> "mock 09", sentiment |-> "negative", category |-> "bug",
     priority |-> 4,
     themes |-> <<<<"r", "2">>,
                 <<"s", "t", "o", "r", "a", "g", "e">>,
                 <<"u", "p", "l", "o", "a", "d", "s">>>>],
    [source |-> "github", content |-> "mock 10", sentiment |-> "negative", category |-> "bug",
     priority |-> 3,
     themes |-> <<<<"c", "r", "o", "n">>,
                 <<"s", "c", "h", "e", "d", "u", "l", "i", "n", "g">>,
                 <<"r", "e", "l", "i", "a", "b", "i", "l", "i", "t", "y">>>>],
    [source |-> "support", content |-> "mock 11", sentiment |-> "negative", category |-> "bug",
     priority |-> 4,
     themes |-> <<<<"p", "a", "g", "e", "s">>,
                 <<"d", "e", "p", "l", "o", "y", "m", "e", "n", "t">>,
                 <<"b", "u", "i", "l", "d", "s">>>>],
    [source |-> "discord", content |-> "mock 12", sentiment |-> "negative", category |-> "bug",
     priority |-> 4,
     themes |-> <<<<"w", "e", "b", "s", "o", "c", "k", "e", "t", "s">>,
                 <<"c", "o", "n", "n", "e", "c", "t", "i", "o", "n", "s">>,
                 <<"r", "e", "l", "i", "a", "b", "i", "l", "i", "t", "y">>>>],
    [source |-> "github", content |-> "mock 13", sentiment |-> "neutral", category |-> "feature",
     priority |-> 3,
     themes |-> <<<<"p", "y", "t", "h", "o", "n">>,
                 <<"l", "a", "n", "g", "u", "a", "g", "e", "s">>,
                 <<"w", "o", "r", "k", "e", "r", "s">>>>],
    [source |-> "discord", content |-> "mock 14", sentiment |-> "neutral", category |-> "feature",
     priority |-> 3,
     themes |-> <<<<"d", "a", "t", "a", "b", "a", "s", "e">>,
                 <<"p", "o", "s", "t", "g", "r", "e", "s", "q", "l">>,
                 <<"s", "t", "o", "r", "a", "g", "e">>>>],
    [source |-> "twitter", content |-> "mock 15", sentiment |-> "neutral", category |-> "feature",
     priority |-> 2,
     themes |-> <<<<"d", "x">>,
                 <<"v", "s", "c", "o", "d", "e">>,
                 <<"t", "o", "o", "l", "i", "n", "g">>>>],
    [source |-> "github", content |-> "mock 16", sentiment |-> "neutral", category |-> "feature",
     priority |-> 3,
     themes |-> <<<<"w", "o", "r", "k", "e", "r", "s">>,
                 <<"r", "e", "s", "o", "u", "r", "c", "e", "s">>,
                 <<"c", "o", "n", "f", "i", "g", "u", "r", "a", "t", "i", "o", "n">>>>],
    [source |-> "support", content |-> "mock 17", sentiment |-> "neutral", category |-> "feature",
     priority |-> 2,
     themes |-> <<<<"p", "r", "i", "c", "i", "n", "g">>,
                 <<"a", "n", "a", "l", "y", "t", "i", "c", "s">>,
                 <<"d", "a", "s", "h", "b", "o", "a", "r", "d">>>>],
    [source |-> "discord", content |-> "mock 18", sentiment |-> "neutral", category |-> "feature",
     priority |-> 2,
     themes |-> <<<<"w", "o", "r", "k", "e", "r", "s">>,
                 <<"e", "r", "r", "o", "r", "s">>,
                 <<"c", "u", "s", "t", "o", "m", "i", "z", "a", "t", "i", "o", "n">>>>],
    [source |-> "github", content |-> "mock 19", sentiment |-> "neutral", category |-> "feature",
     priority |-> 3,
     themes |-> <<<<"d", "1">>,
                 <<"c", "i", "/", "c", "d">>,
                 <<"a", "u", "t", "o", "m", "a", "t", "i", "o", "n">>>>],
    [source |-> "twitter", content |-> "mock 20", sentiment |-> "neutral", category |-> "feature",
     priority |-> 3,
     themes |-> <<<<"q", "u", "e", "u", "e", "s">>,
                 <<"r", "e", "l", "i", "a", "b", "i", "l", "i", "t", "y">>,
                 <<"p", "r", "o", "d", "u", "c", "t", "i", "o", "n">>>>],
    [source |-> "twitter", content |-> "mock 21", sentiment |-> "negative", category |-> "complaint",
     priority |-> 5,
     themes |-> <<<<"p", "r", "i", "c", "i", "n", "g">>,
                 <<"b", "i", "l", "l", "i", "n", "g">>,
                 <<"c", "o", "s", "t", "s">>>>],
    [source |-> "support", content |-> "mock 22", sentiment |-> "negative", category |-> "complaint",
     priority |-> 3,
     themes |-> <<<<"d", "o", "c", "u", "m", "e", "n", "t", "a", "t", "i", "o", "n">>,
                 <<"w", "o", "r", "k", "e", "r", "s", " ", "a", "i">>,
                 <<"o", "n", "b", "o", "a", "r", "d", "i", "n", "g">>>>],
    [source |-> "discord", content |-> "mock 23", sentiment |-> "negative", category |-> "complaint",
     priority |-> 4,
     themes |-> <<<<"p", "r", "i", "c", "i", "n", "g">>,
                 <<"b", "i", "l", "l", "i", "n", "g">>,
                 <<"t", "r", "a", "n", "s", "p", "a", "r", "e", "n", "c", "y">>>>],
    [source |-> "twitter", content |-> "mock 24", sentiment |-> "negative", category |-> "complaint",
     priority |-> 4,
     themes |-> <<<<"s", "u", "p", "p", "o", "r", "t">>,
                 <<"r", "e", "s", "p", "o", "n", "s", "e", " ", "t", "i", "m", "e">>>>],
    [source |-> "github", content |-> "mock 25", sentiment |-> "negative", category |-> "complaint",
     priority |-> 3,
     themes |-> <<<<"m", "i", "g", "r", "a", "t", "i", "o", "n">>,
                 <<"d", "x">>,
                 <<"d", "o", "c", "u", "m", "e", "n", "t", "a", "t", "i", "o", "n">>>>],
    [source |-> "support", content |-> "mock 26", sentiment |-> "negative", category |-> "complaint",
     priority |-> 5,
     themes |-> <<<<"s", "a", "l", "e", "s">>,
                 <<"e", "n", "t", "e", "r", "p", "r", "i", "s", "e">>,
                 <<"s", "u", "p", "p", "o", "r", "t">>>>],
    [source |-> "twitter", content |-> "mock 27", sentiment |-> "positive", category |-> "praise",
     priority |-> 1,
     themes |-> <<<<"d", "a", "s", "h", "b", "o", "a", "r", "d">>,
                 <<"u", "i">>,
                 <<"p", "e", "r", "f", "o", "r", "m", "a", "n", "c", "e">>>>],
    [source |-> "discord", content |-> "mock 28", sentiment |-> "positive", category |-> "praise",
     priority |-> 1,
     themes |-> <<<<"p", "e", "r", "f", "o", "r", "m", "a", "n", "c", "e">>,
                 <<"p", "r", "i", "c", "i", "n", "g">>,
                 <<"m", "i", "g", "r", "a", "t", "i", "o", "n">>>>],
    [source |-> "github", content |-> "mock 29", sentiment |-> "positive", category |-> "praise",
     priority |-> 1,
     themes |-> <<<<"d", "1">>,
                 <<"s", "u", "p", "p", "o", "r", "t">>,
                 <<"r", "e", "l", "i", "a", "b", "i", "l", "i", "t", "y">>>>],
    [source |-> "twitter", content |-> "mock 30", sentiment |-> "positive", category |-> "praise",
     priority |-> 1,
     themes |-> <<<<"w", "o", "r", "k", "e", "r", "s", " ", "a", "i">>,
                 <<"e", "d", "g", "e">>,
                 <<"i", "n", "n", "o", "v", "a", "t", "i", "o", "n">>>>]
>>


\* A DELETE that removes nothing
SeedWithoutDelete ==
    /\ seeding = 0
    /\ seeding' = 1
    /\ UNCHANGED <<store, lastId, now, posted, seeded, ticks, resp, walk, call, inflight>>

\* await env.DB.prepare('DELETE FROM feedback').run()
SeedDelete ==
    /\ seeding = 0
    /\ store' = <<>>
    /\ seeding' = 1
    /\ UNCHANGED <<lastId, now, posted, seeded, ticks, resp, walk, call, inflight>>

\* One INSERT of Promise.all(insertPromises): the statements were sent in
\* array order, and each takes the defaults of the schema for the columns
\* it does not name.
SeedInsert ==
    /\ seeding \in 1..Len(mockFeedback)
    /\ store' = Append(store, NewRow(lastId + 1, mockFeedback[seeding].source,
                                     mockFeedback[seeding].content, mockFeedback[seeding],
                                     JSONStringify(mockFeedback[seeding].themes), now))
    /\ lastId' = lastId + 1
    /\ seeding' = seeding + 1
    /\ UNCHANGED <<now, posted, seeded, ticks, resp, walk, call, inflight>>

\* The database rejects one INSERT: Promise.all rejects with it and the catch
\* block answers 500, while the statements already sent go on.
SeedFailed(n) == [handler |-> "handleSeed", rejected |-> n]

SeedReject(limit) ==
    /\ seeding \in 1..Len(mockFeedback)
    /\ IF inflight = NoFlight
       THEN /\ inflight' = SeedFailed(1)
            /\ resp' = Response("handleSeed", 500, ErrorBody("Failed to seed database"))
       ELSE /\ inflight.handler = "handleSeed"
            /\ inflight.rejected < limit
            /\ inflight' = SeedFailed(inflight.rejected + 1)
            /\ UNCHANGED resp
    /\ seeding' = seeding + 1
    /\ UNCHANGED <<store, lastId, now, posted, seeded, ticks, walk, call>>

\* The last statement of a run that failed has settled
SeedSettle ==
    /\ seeding = Len(mockFeedback) + 1
    /\ inflight.handler = "handleSeed"
    /\ seeded' = seeded + 1
    /\ seeding' = 0
    /\ inflight' = NoFlight
    /\ UNCHANGED <<store, lastId, now, posted, ticks, resp, walk, call>>

\* return Response.json({success: true, ...})
SeedRespond ==
    /\ seeding = Len(mockFeedback) + 1
    /\ inflight.handler # "handleSeed"
    /\ seeded' = seeded + 1
    /\ seeding' = 0
    /\ resp' = Response("handleSeed", 200, [success |-> TRUE, total |-> Len(mockFeedback)])
    /\ UNCHANGED <<store, lastId, now, posted, ticks, walk, call, inflight>>

\* handleSeed: DELETE FROM feedback, then one INSERT per demo row, each
\* statement a step of its own between which other requests are served
handleSeed == SeedDelete \/ SeedInsert \/ SeedReject(1) \/ SeedSettle \/ SeedRespond

-----------------------------------------------------------------------------
(* POST /api/feedback *)

\* !x
Falsy(x) ==
    \/ x.t \in {"undefined", "null", "nan"}
    \/ x.t = "string" /\ x.v = ""
    \/ x.t = "number" /\ x.v = 0

\* body: [kind, content, source].  kind "malformed": request.json() rejects;
\* kind "null": the JSON text null, whose properties cannot be read; kind
\* "object": any other JSON value, with the two properties the code reads.
PostBody(content, source) == [kind |-> "object", content |-> content, source |-> source]

handlePostFeedback(body, ai) ==
    /\ posted' = posted + 1
    /\ IF body.kind # "object"
       THEN /\ resp' = Response("handlePostFeedback", 500, ErrorBody("Failed to create feedback"))
            /\ UNCHANGED <<store, lastId, call>>
       ELSE IF Falsy(body.content) \/ body.content.t # "string"
       THEN /\ resp' = Response("handlePostFeedback", 400, ErrorBody("content is required"))
            /\ UNCHANGED <<store, lastId, call>>
       ELSE IF Falsy(body.source) \/ ~(body.source.t = "string" /\ body.source.v \in validSources)
       THEN /\ resp' = Response("handlePostFeedback", 400, ErrorBody("source must be one of"))
            /\ UNCHANGED <<store, lastId, call>>
       ELSE \E analysis \in {analyzeFeedback(ai)} :
            \E row \in {NewRow(lastId + 1, body.source.v, body.content.v, analysis,
                                JSONStringify(analysis.themes), now)} :
                IF ChecksPass(row)
                THEN /\ call' = ai
                     /\ store' = Append(store, row)
                     /\ lastId' = lastId + 1
                     /\ resp' = Response("handlePostFeedback", 201,
                                         [success |-> TRUE, feedback |-> WithParsedThemes(row)])
                ELSE /\ resp' = Response("handlePostFeedback", 500,
                                         ErrorBody("Failed to create feedback"))
                     /\ UNCHANGED <<store, lastId, call>>
    /\ UNCHANGED <<now, seeded, ticks, walk, seeding, inflight>>

-----------------------------------------------------------------------------
(* GET /api/insights *)

TopThemes == 5
HighPriorityFrom == 4
HighPriorityLimit == 5

IsHighPriority(r) == r.priority >= HighPriorityFrom

\* SELECT * FROM feedback WHERE priority >= 4
\*   ORDER BY priority DESC, created_at DESC LIMIT 5
HighPriorityQuery(rows, tie) ==
    LimitOffset(OrderBy(SelectSeq(rows, IsHighPriority), "priority DESC, created_at DESC", tie),
                HighPriorityLimit, 0)

\* sentimentCounts started from {}: a sentiment no row has gets no key
SentimentCountsFromEmpty(sentimentResult) ==
    [k \in {r.key : r \in sentimentResult} |->
        (CHOOSE r \in sentimentResult : r.key = k).count]

\* sentimentCounts: the three keys at 0, overwritten by the grouped counts
SentimentCounts(sentimentResult) ==
    [k \in validSentiments |->
        IF \E r \in sentimentResult : r.key = k
        THEN (CHOOSE r \in sentimentResult : r.key = k).count
        ELSE 0]

\* categories: one key per row of the grouped result
CategoryCounts(categoryResult) ==
    [k \in {r.key : r \in categoryResult} |->
        (CHOOSE r \in categoryResult : r.key = k).count]

\* Object.entries(themeCounts).sort(...).slice(0, 5).map(...)
ThemeEntry(e) == [theme |-> e[1], count |-> e[2]]
TopThemesOf(themeCounts) ==
    LET top == Slice(SortByCountDesc(ObjectEntries(themeCounts)), TopThemes)
    IN  [i \in DOMAIN top |-> ThemeEntry(top[i])]

\* The response built from the results of the five queries
InsightsFrom(total, sentimentResult, categoryResult, allFeedback, highPriorityResult) ==
    [total |-> total,
     sentiment |-> SentimentCounts(sentimentResult),
     categories |-> CategoryCounts(categoryResult),
     topThemes |-> TopThemesOf(CountThemes(allFeedback)),
     highPriority |-> [i \in DOMAIN highPriorityResult |->
                          WithParsedThemes(highPriorityResult[i])]]

\* handleGetInsights, its five queries answered from one state of the store
\* JSON.parse of a high-priority row's themes is outside the inner try: its
\* SyntaxError reaches the catch block of the handler.
InsightsResponse(total, sentimentResult, categoryResult, allFeedback, highPriorityResult) ==
    IF \E i \in DOMAIN highPriorityResult : ~JSONParse(highPriorityResult[i].themes).ok
    THEN Response("handleGetInsights", 500, ErrorBody("Failed to fetch insights"))
    ELSE Response("handleGetInsights", 200,
                  [success |-> TRUE,
                   insights |-> InsightsFrom(total, sentimentResult, categoryResult,
                                             allFeedback, highPriorityResult)])

handleGetInsights ==
    \E tie \in TieOrders :
        /\ resp' = InsightsResponse(Len(store),
                                    GroupCount(store, "sentiment"),
                                    GroupCount(store, "category"),
                                    store,
                                    HighPriorityQuery(store, tie))
        /\ UNCHANGED <<store, lastId, now, posted, seeded, ticks, walk, call, seeding, inflight>>

\* handleGetInsights statement by statement.  Promise.all sends the five
\* queries in array order and no transaction joins them: each is answered
\* from the store as it is when it runs, and other requests run in between.
InsightsFlight ==
    [handler |-> "handleGetInsights", next |-> 1, total |-> 0, sentimentResult |-> {},
     categoryResult |-> {}, allFeedback |-> <<>>]

\* SELECT COUNT(*) as total FROM feedback
InsightsTotal ==
    /\ inflight = NoFlight
    /\ inflight' = [InsightsFlight EXCEPT !.next = 2, !.total = Len(store)]
    /\ UNCHANGED <<store, lastId, now, posted, seeded, ticks, resp, walk, call, seeding>>

\* SELECT sentiment, COUNT(*) as count FROM feedback GROUP BY sentiment
InsightsSentiment ==
    /\ inflight.handler = "handleGetInsights"
    /\ inflight.next = 2
    /\ inflight' = [inflight EXCEPT !.next = 3,
                                    !.sentimentResult = GroupCount(store, "sentiment")]
    /\ UNCHANGED <<store, lastId, now, posted, seeded, ticks, resp, walk, call, seeding>>

\* SELECT category, COUNT(*) as count FROM feedback GROUP BY category
InsightsCategory ==
    /\ inflight.handler = "handleGetInsights"
    /\ inflight.next = 3
    /\ inflight' = [inflight EXCEPT !.next = 4,
                                    !.categoryResult = GroupCount(store, "category")]
    /\ UNCHANGED <<store, lastId, now, posted, seeded, ticks, resp, walk, call, seeding>>

\* SELECT themes FROM feedback
InsightsThemes ==
    /\ inflight.handler = "handleGetInsights"
    /\ inflight.next = 4
    /\ inflight' = [inflight EXCEPT !.next = 5, !.allFeedback = store]
    /\ UNCHANGED <<store, lastId, now, posted, seeded, ticks, resp, walk, call, seeding>>

\* SELECT * FROM feedback WHERE priority >= 4 ..., and the response
InsightsHighPriority ==
    /\ inflight.handler = "handleGetInsights"
    /\ inflight.next = 5
    /\ \E tie \in TieOrders :
          resp' = InsightsResponse(inflight.total, inflight.sentimentResult,
                                   inflight.categoryResult, inflight.allFeedback,
                                   HighPriorityQuery(store, tie))
    /\ inflight' = NoFlight
    /\ UNCHANGED <<store, lastId, now, posted, seeded, ticks, walk, call, seeding>>

-----------------------------------------------------------------------------
(* GET /api/themes *)

ExamplesPerTheme == 3

GroupItem(f) == [id |-> f.id, content |-> f.content, sentiment |-> f.sentiment,
                 source |-> f.source]

\* if (!themeGroups[t]) themeGroups[t] = { count: 0, feedback: [] };
\* themeGroups[t].count++; themeGroups[t].feedback.push(item)
AddToGroup(o, k, item) ==
    IF HasOwn(o, k)
    THEN [o EXCEPT !.vals[OwnIndex(o, k)] =
                       [count |-> @.count + 1, feedback |-> Append(@.feedback, item)]]
    ELSE [keys |-> Append(o.keys, k),
          vals |-> Append(o.vals, [count |-> 1, feedback |-> <<item>>])]

\* One row's themes.forEach.  For an inherited name themeGroups[t] is
\* Object.prototype, which has no feedback array: push throws a TypeError and
\* the catch block ends the row.
RECURSIVE GroupKeys(_, _, _, _)
GroupKeys(o, ks, i, item) ==
    IF i > Len(ks) THEN o
    ELSE IF ks[i] \in InheritedKeys THEN o
    ELSE GroupKeys(AddToGroup(o, ks[i], item), ks, i + 1, item)

RECURSIVE GroupThemesFrom(_, _, _)
GroupThemesFrom(o, rows, i) ==
    IF i > Len(rows) THEN o
    ELSE GroupThemesFrom(GroupKeys(o, RowThemeKeys(rows[i].themes), 1, GroupItem(rows[i])),
                         rows, i + 1)

\* sort((a, b) => b[1].count - a[1].count), stable
RECURSIVE InsertGroupDesc(_, _)
InsertGroupDesc(sorted, e) ==
    IF sorted = <<>> THEN <<e>>
    ELSE IF e[2].count > Head(sorted)[2].count THEN <<e>> \o sorted
    ELSE <<Head(sorted)>> \o InsertGroupDesc(Tail(sorted), e)

RECURSIVE SortGroupsDesc(_)
SortGroupsDesc(es) ==
    IF es = <<>> THEN <<>>
    ELSE InsertGroupDesc(SortGroupsDesc(SubSeq(es, 1, Len(es) - 1)), es[Len(es)])

ThemeGroupEntry(e) ==
    [theme |-> e[1], count |-> e[2].count, feedback |-> Slice(e[2].feedback, ExamplesPerTheme)]

EntriesOfGroups(es) == [i \in DOMAIN es |-> ThemeGroupEntry(es[i])]

\* themes: the groups of the rows of SELECT ... FROM feedback, in rowid order
ThemeGroups(rows) ==
    EntriesOfGroups(SortGroupsDesc(ObjectEntries(GroupThemesFrom(EmptyObject, rows, 1))))

handleGetThemes ==
    /\ resp' = Response("handleGetThemes", 200,
                        [success |-> TRUE, themes |-> ThemeGroups(store)])
    /\ UNCHANGED <<store, lastId, now, posted, seeded, ticks, walk, call, seeding, inflight>>

-----------------------------------------------------------------------------
(* The clock *)

Tick(d) ==
    /\ ticks' = ticks + 1
    /\ now' = now + d
    /\ UNCHANGED <<store, lastId, posted, seeded, resp, walk, call, seeding, inflight>>


-----------------------------------------------------------------------------
(* JavaScript numbers: IEEE 754 binary64 arithmetic *)

\* A number is [neg |-> its sign, limbs |-> its magnitude], the magnitude a
\* string of IntLimbs + FracLimbs digits in base 2^LimbBits, most significant
\* first, the point after digit IntLimbs.  Every result is rounded to
\* Significand significant binary digits, to nearest and ties to even.
Significand == 53

Base == 2 ^ LimbBits

Abs(n) == IF n < 0 THEN -n ELSE n

ZeroLimbs(n) == [i \in 1..n |-> 0]

\* Binary digit p of the string, counted from the most significant
DigitAt(d, p) ==
    (d[(p - 1) \div LimbBits + 1] \div (2 ^ (LimbBits - 1 - ((p - 1) % LimbBits)))) % 2

\* The place of the first non-zero binary digit, 0 when there is none
LeadingInLimb(v) == CHOOSE q \in 1..LimbBits : 2 ^ (LimbBits - q) <= v /\ v < 2 ^ (LimbBits - q + 1)

LeadingFrom(d, f) == (f - 1) * LimbBits + LeadingInLimb(d[f])

LeadingOne(d) ==
    IF \A i \in DOMAIN d : d[i] = 0 THEN 0
    ELSE LeadingFrom(d, CHOOSE f \in DOMAIN d : d[f] # 0 /\ \A j \in 1..(f - 1) : d[j] = 0)

\* The binary digits up to place last, the later ones cleared
Truncate(d, last) ==
    [j \in DOMAIN d |->
        IF j * LimbBits <= last THEN d[j]
        ELSE IF (j - 1) * LimbBits >= last THEN 0
        ELSE (d[j] \div (2 ^ (j * LimbBits - last))) * (2 ^ (j * LimbBits - last))]

\* One unit of binary place p
UnitAt(n, p) ==
    [j \in 1..n |-> IF j = (p - 1) \div LimbBits + 1
                    THEN 2 ^ (LimbBits - 1 - ((p - 1) % LimbBits)) ELSE 0]

\* Strings of equal length: sum, difference (a >= b), product by a natural,
\* each exact as long as the string holds it
RECURSIVE AddFrom(_, _, _, _)
AddFrom(a, b, i, carry) ==
    IF i = 0 THEN <<>>
    ELSE AddFrom(a, b, i - 1, (a[i] + b[i] + carry) \div Base)
         \o <<(a[i] + b[i] + carry) % Base>>

RECURSIVE SubFrom(_, _, _, _)
SubFrom(a, b, i, borrow) ==
    IF i = 0 THEN <<>>
    ELSE SubFrom(a, b, i - 1, IF a[i] - b[i] - borrow < 0 THEN 1 ELSE 0)
         \o <<(a[i] - b[i] - borrow + Base) % Base>>

RECURSIVE MulFrom(_, _, _, _)
MulFrom(a, k, i, carry) ==
    IF i = 0 THEN <<>>
    ELSE MulFrom(a, k, i - 1, (a[i] * k + carry) \div Base) \o <<(a[i] * k + carry) % Base>>

GreaterLimbs(a, b) ==
    \E i \in DOMAIN a : a[i] > b[i] /\ \A j \in 1..(i - 1) : a[j] = b[j]

\* Rounding at place last: the guard digit, then the digits after it
\* (sticky: a non-zero remainder beyond the string), then the digit kept last
RoundAt(d, last, sticky) ==
    IF last >= Len(d) * LimbBits THEN d
    ELSE IF /\ DigitAt(d, last + 1) = 1
            /\ \/ sticky
               \/ Truncate(d, last + 1) # d
               \/ DigitAt(d, last) = 1
    THEN AddFrom(Truncate(d, last), UnitAt(Len(d), last), Len(d), 0)
    ELSE Truncate(d, last)

RoundFrom(d, lead, sticky) ==
    IF lead = 0 THEN d ELSE RoundAt(d, lead + Significand - 1, sticky)

RoundLimbs(d, sticky) == RoundFrom(d, LeadingOne(d), sticky)

\* Long division: the next k digits of rem / m, and the remainder after them
RECURSIVE FractionLimbs(_, _, _)
FractionLimbs(rem, m, k) ==
    IF k = 0 THEN <<>>
    ELSE <<(rem * Base) \div m>> \o FractionLimbs((rem * Base) % m, m, k - 1)

RECURSIVE RemainderAfter(_, _, _)
RemainderAfter(rem, m, k) ==
    IF k = 0 THEN rem ELSE RemainderAfter((rem * Base) % m, m, k - 1)

NatLimbs(n, w) == [i \in 1..w |-> (n \div (Base ^ (w - i))) % Base]

RECURSIVE LimbsValue(_)
LimbsValue(d) ==
    IF d = <<>> THEN 0 ELSE Base * LimbsValue(SubSeq(d, 1, Len(d) - 1)) + d[Len(d)]

\* a / m for integers a and m > 0
Divide(a, m) ==
    [neg |-> a < 0,
     limbs |-> RoundLimbs(NatLimbs(Abs(a) \div m, IntLimbs)
                             \o FractionLimbs(Abs(a) % m, m, FracLimbs),
                          RemainderAfter(Abs(a) % m, m, FracLimbs) # 0)]

NumberOf(n) == Divide(n, 1)

IsZero(x) == \A i \in DOMAIN x.limbs : x.limbs[i] = 0

Negate(x) == [x EXCEPT !.neg = ~x.neg]

\* x + y
Add(x, y) ==
    IF x.neg = y.neg
    THEN [neg |-> x.neg,
          limbs |-> RoundLimbs(AddFrom(x.limbs, y.limbs, Len(x.limbs), 0), FALSE)]
    ELSE IF GreaterLimbs(x.limbs, y.limbs)
    THEN [neg |-> x.neg,
          limbs |-> RoundLimbs(SubFrom(x.limbs, y.limbs, Len(x.limbs), 0), FALSE)]
    ELSE IF GreaterLimbs(y.limbs, x.limbs)
    THEN [neg |-> y.neg,
          limbs |-> RoundLimbs(SubFrom(y.limbs, x.limbs, Len(x.limbs), 0), FALSE)]
    ELSE [neg |-> FALSE, limbs |-> ZeroLimbs(Len(x.limbs))]

\* x - y
Subtract(x, y) == Add(x, Negate(y))

\* x * k for a natural k
Multiply(x, k) ==
    [neg |-> x.neg, limbs |-> RoundLimbs(MulFrom(x.limbs, k, Len(x.limbs), 0), FALSE)]

\* x > y and x < y
GreaterThan(x, y) ==
    IF IsZero(x) /\ IsZero(y) THEN FALSE
    ELSE IF x.neg # y.neg THEN y.neg
    ELSE IF x.neg THEN GreaterLimbs(y.limbs, x.limbs)
    ELSE GreaterLimbs(x.limbs, y.limbs)

LessThan(x, y) == GreaterThan(y, x)

\* Math.round of a number that is not negative: halves go up
RoundToInteger(x) ==
    LimbsValue(SubSeq(x.limbs, 1, IntLimbs)) + DigitAt(x.limbs, IntLimbs * LimbBits + 1)

-----------------------------------------------------------------------------
(* GET /api/ai-insights *)

RecentWindow == 10
DistributionThemes == 5

Nullable(x) == <<x>>
Null == <<>>

\* if (!o[t]) o[t] = { total: 0, count: 0 }; o[t].total += priority; o[t].count++.
\* For an inherited name o[t] is Object.prototype itself: no own property is
\* created, and the two updates land on the prototype.
AddPriority(o, k, p) ==
    IF HasOwn(o, k)
    THEN [o EXCEPT !.vals[OwnIndex(o, k)] = [total |-> @.total + p, count |-> @.count + 1]]
    ELSE IF k \in InheritedKeys THEN o
    ELSE [keys |-> Append(o.keys, k), vals |-> Append(o.vals, [total |-> p, count |-> 1])]

RECURSIVE AddPriorityAll(_, _, _, _)
AddPriorityAll(o, ks, i, p) ==
    IF i > Len(ks) THEN o ELSE AddPriorityAll(AddPriority(o, ks[i], p), ks, i + 1, p)

\* negativeThemePriorities after feedback.forEach(...)
RECURSIVE NegativeThemePriorities(_, _, _)
NegativeThemePriorities(o, feedback, i) ==
    IF i > Len(feedback) THEN o
    ELSE IF feedback[i].sentiment = "negative"
    THEN NegativeThemePriorities(
             AddPriorityAll(o, RowThemeKeys(feedback[i].themes), 1, feedback[i].priority),
             feedback, i + 1)
    ELSE NegativeThemePriorities(o, feedback, i + 1)

\* Math.round(x * 10) / 10 of the quotient num / den, in tenths
RoundToTenths(num, den) == (20 * num + den) \div (2 * den)

\* The forEach over Object.entries(negativeThemePriorities).  st: the issue
\* chosen so far and highestAvgPriority as the quotient num / den.
RECURSIVE MostUrgentFrom(_, _, _)
MostUrgentFrom(es, i, st) ==
    IF i > Len(es) THEN st.issue
    ELSE LET data == es[i][2]
             chosenCount == IF st.issue = Null THEN 0 ELSE st.issue[1].count
             greater == data.total * st.den > st.num * data.count
             equal == data.total * st.den = st.num * data.count
         IN  IF greater \/ (equal /\ data.count > chosenCount)
             THEN MostUrgentFrom(es, i + 1,
                      [issue |-> Nullable([theme |-> es[i][1],
                                           avgPriority |-> RoundToTenths(data.total, data.count),
                                           count |-> data.count]),
                       num |-> data.total, den |-> data.count])
             ELSE MostUrgentFrom(es, i + 1, st)

MostUrgentIssue(feedback) ==
    MostUrgentFrom(ObjectEntries(NegativeThemePriorities(EmptyObject, feedback, 1)), 1,
                   [issue |-> Null, num |-> 0, den |-> 1])

\* The forEach over Object.entries(recentThemeCounts)
RECURSIVE TrendingFrom(_, _, _, _)
TrendingFrom(es, i, topic, maxRecentCount) ==
    IF i > Len(es) THEN topic
    ELSE IF es[i][2] > maxRecentCount
    THEN TrendingFrom(es, i + 1,
             Nullable([theme |-> es[i][1], count |-> es[i][2], recentMentions |-> es[i][2]]),
             es[i][2])
    ELSE TrendingFrom(es, i + 1, topic, maxRecentCount)

TrendingTopic(feedback) ==
    TrendingFrom(ObjectEntries(CountThemes(Slice(feedback, RecentWindow))), 1, Null, 0)

CountSentiment(items, s) == Cardinality({i \in DOMAIN items : items[i].sentiment = s})

\* calcPositiveRatio
PositiveRatio(items) ==
    IF Len(items) = 0 THEN NumberOf(0)
    ELSE Divide(CountSentiment(items, "positive") - CountSentiment(items, "negative"),
                Len(items))

\* The literal 0.1: the number nearest to one tenth
Tenth == Divide(1, 10)

\* if (diff > 0.1) ... else if (diff < -0.1) ... else ...
TrendOf(diff) ==
    IF GreaterThan(diff, Tenth) THEN "improving"
    ELSE IF LessThan(diff, Negate(Tenth)) THEN "declining"
    ELSE "stable"

TrendDescription(trend) ==
    CASE trend = "improving" -> "Sentiment is getting more positive recently"
      [] trend = "declining" -> "More negative feedback in recent entries"
      [] trend = "stable" -> "Sentiment has remained consistent"

TrendRecord(trend, recentHalf) ==
    [trend |-> trend, description |-> TrendDescription(trend),
     recentPositive |-> CountSentiment(recentHalf, "positive"),
     recentNegative |-> CountSentiment(recentHalf, "negative")]

\* diff = recentRatio - olderRatio, and the trend it gives
HalvesTrend(recentHalf, olderHalf) ==
    TrendRecord(TrendOf(Subtract(PositiveRatio(recentHalf), PositiveRatio(olderHalf))),
                recentHalf)

\* midpoint || 1 with midpoint = Math.floor(feedback.length / 2)
SliceAt(n) == IF n \div 2 = 0 THEN 1 ELSE n \div 2

SentimentTrend(feedback) ==
    HalvesTrend(SubSeq(feedback, 1, Min(SliceAt(Len(feedback)), Len(feedback))),
                SubSeq(feedback, SliceAt(Len(feedback)) + 1, Len(feedback)))

RECURSIVE SumValues(_)
SumValues(vals) == IF vals = <<>> THEN 0 ELSE Head(vals) + SumValues(Tail(vals))

\* Math.round((count / total) * 100)
Percentage(count, total) == RoundToInteger(Multiply(Divide(count, total), 100))

ThemeDistribution(feedback) ==
    LET allThemeCounts == CountThemes(feedback)
        totalThemeMentions == SumValues(allThemeCounts.vals)
        top == Slice(SortByCountDesc(ObjectEntries(allThemeCounts)), DistributionThemes)
    IN  [i \in DOMAIN top |->
            [theme |-> top[i][1], count |-> top[i][2],
             percentage |-> Percentage(top[i][2], totalThemeMentions)]]

\* The insights computed without the early return for an empty table
AIInsightsUnguarded(feedback) ==
    [mostUrgentIssue |-> MostUrgentIssue(feedback),
     trendingTopic |-> TrendingTopic(feedback),
     sentimentTrend |-> SentimentTrend(feedback),
     themeDistribution |-> ThemeDistribution(feedback)]

\* The response computed from the rows of SELECT ... ORDER BY created_at DESC
AIInsightsFrom(feedback) ==
    IF Len(feedback) = 0
    THEN [mostUrgentIssue |-> Null, trendingTopic |-> Null,
          sentimentTrend |-> [trend |-> "neutral", description |-> "No data yet"],
          themeDistribution |-> <<>>]
    ELSE [mostUrgentIssue |-> MostUrgentIssue(feedback),
          trendingTopic |-> TrendingTopic(feedback),
          sentimentTrend |-> SentimentTrend(feedback),
          themeDistribution |-> ThemeDistribution(feedback)]

\* feedback: the rows read, kept with the response for the properties below
handleGetAIInsights ==
    \E tie \in TieOrders :
        \E feedback \in {OrderBy(store, "created_at DESC", tie)} :
            /\ resp' = Response("handleGetAIInsights", 200,
                                [success |-> TRUE, aiInsights |-> AIInsightsFrom(feedback),
                                 read |-> feedback])
            /\ UNCHANGED <<store, lastId, now, posted, seeded, ticks, walk, call, seeding, inflight>>

-----------------------------------------------------------------------------
(* GET /api/feedback *)

DefaultPage == <<"1">>
DefaultLimit == <<"1", "0">>
MaxLimit == 100

JsInt(n) == JsNumber(10 * n)
IsInteger(x) == x.t = "number" /\ x.v % 10 = 0
IntOf(x) == x.v \div 10

\* parseInt(s), radix 10: white space skipped, an optional sign, then the
\* longest run of digits; NaN when that run is empty.
RECURSIVE LeadingDigits(_)
LeadingDigits(s) ==
    IF s = <<>> \/ ~IsDigit(Head(s)) THEN <<>> ELSE <<Head(s)>> \o LeadingDigits(Tail(s))

RECURSIVE SkipWhite(_)
SkipWhite(s) == IF s # <<>> /\ Head(s) \in WhiteChars THEN SkipWhite(Tail(s)) ELSE s

ParseInt(str) ==
    LET s == SkipWhite(str)
        signed == s # <<>> /\ s[1] \in {"-", "+"}
        ds == LeadingDigits(IF signed THEN Tail(s) ELSE s)
    IN  IF ds = <<>> THEN JsNaN
        ELSE JsInt(IF signed /\ s[1] = "-" THEN -DigitsValue(ds) ELSE DigitsValue(ds))

\* Math.max and Math.min: NaN when an argument is NaN
MathMax(a, b) == IF a.t = "nan" \/ b.t = "nan" THEN JsNaN ELSE JsNumber(Max(a.v, b.v))
MathMin(a, b) == IF a.t = "nan" \/ b.t = "nan" THEN JsNaN ELSE JsNumber(Min(a.v, b.v))

\* searchParams.get(name) || dflt, for a parameter read character by character
OrDefault(param, dflt) == IF param = Null \/ param[1] = <<>> THEN dflt ELSE param[1]

\* if (param), for a parameter compared as a whole
Supplied(param) == param # Null /\ param[1] # ""

\* page, limit and offset of lines 178-180
EffectivePage(param) == MathMax(JsInt(1), ParseInt(OrDefault(param, DefaultPage)))
EffectiveLimit(param) ==
    MathMin(JsInt(MaxLimit), MathMax(JsInt(1), ParseInt(OrDefault(param, DefaultLimit))))
\* page * limit: the first page skipped
OffsetFromPage(page, limit) ==
    IF page.t = "nan" \/ limit.t = "nan" THEN JsNaN
    ELSE JsNumber((page.v * limit.v) \div 10)

Offset(page, limit) ==
    IF page.t = "nan" \/ limit.t = "nan" THEN JsNaN
    ELSE JsNumber(((page.v - 10) * limit.v) \div 10)

\* The switch on dateRange: the length of the window in s, or null
DateWindow(dateRange) ==
    CASE dateRange = "24h" -> Nullable(24 * 60 * 60)
      [] dateRange = "7d" -> Nullable(7 * 24 * 60 * 60)
      [] dateRange = "30d" -> Nullable(30 * 24 * 60 * 60)
      [] OTHER -> Null

\* params, by the column each value is compared with; null where whereClause
\* has no term for the column
WhereParams(req, sec) ==
    [source |-> IF Supplied(req.source) THEN req.source ELSE Null,
     sentiment |-> IF Supplied(req.sentiment) THEN req.sentiment ELSE Null,
     category |-> IF Supplied(req.category) THEN req.category ELSE Null,
     priority |-> IF req.priority # Null /\ req.priority[1] # <<>>
                  THEN Nullable(ParseInt(req.priority[1])) ELSE Null,
     since |-> IF Supplied(req.dateRange) /\ DateWindow(req.dateRange[1]) # Null
               THEN Nullable(toISOString(sec - DateWindow(req.dateRange[1])[1]))
               ELSE Null]

\* priority >= ? in place of priority = ?
RowMatchesAtLeast(r, w) ==
    /\ w.source = Null \/ r.source = w.source[1]
    /\ w.sentiment = Null \/ r.sentiment = w.sentiment[1]
    /\ w.category = Null \/ r.category = w.category[1]
    /\ w.priority = Null \/ (w.priority[1].t = "number" /\ 10 * r.priority >= w.priority[1].v)
    /\ w.since = Null \/ TextCompare(r.created_at, w.since[1]) >= 0

\* WHERE 1=1 AND ...: a NaN bound to priority = ? arrives as NULL, and
\* priority = NULL is true of no row
RowMatches(r, w) ==
    /\ w.source = Null \/ r.source = w.source[1]
    /\ w.sentiment = Null \/ r.sentiment = w.sentiment[1]
    /\ w.category = Null \/ r.category = w.category[1]
    /\ w.priority = Null \/ (w.priority[1].t = "number" /\ 10 * r.priority = w.priority[1].v)
    /\ w.since = Null \/ TextCompare(r.created_at, w.since[1]) >= 0

\* What D1 does with a NaN among the bound values: it sends it as null, or it
\* rejects the statement
NaNBinds == {"null", "reject"}

\* Math.floor in place of Math.ceil
TotalPagesFloor(total, limit) == total \div limit

\* Math.ceil(total / limit)
TotalPages(total, limit) == (total + limit - 1) \div limit

ListRequest(source, sentiment, category, priority, dateRange, page, limit) ==
    [source |-> source, sentiment |-> sentiment, category |-> category,
     priority |-> priority, dateRange |-> dateRange, page |-> page, limit |-> limit]

\* The response of handleGetFeedback to req at time sec.  request, now and
\* locals are kept with the response for the properties below.
\* What the response keeps of the request, for the claims to refer to
Kept(req, sec, page, limit, offset) ==
    [request |-> req, now |-> sec,
     locals |-> [page |-> page, limit |-> limit, offset |-> offset]]

\* The catch block
ListFailure(kept) ==
    [handler |-> "handleGetFeedback", status |-> 500,
     body |-> ErrorBody("Failed to fetch feedback"), kept |-> kept]

\* The rows with their themes parsed, and the pagination object
ListResult(result, page, limit, total, totalPages, kept) ==
    IF \E i \in DOMAIN result : ~JSONParse(result[i].themes).ok THEN ListFailure(kept)
    ELSE [handler |-> "handleGetFeedback", status |-> 200,
          body |-> [success |-> TRUE,
                    feedback |-> [i \in DOMAIN result |-> WithParsedThemes(result[i])],
                    pagination |-> [page |-> page,
                                    limit |-> limit,
                                    total |-> total,
                                    totalPages |-> totalPages,
                                    hasNext |-> page < totalPages,
                                    hasPrev |-> page > 1]],
          kept |-> kept]

\* The count query and the data query; LIMIT or OFFSET bound to NaN fails
ListQueries(matching, page, limit, offset, tie, kept) ==
    IF limit.t = "nan" \/ offset.t = "nan" THEN ListFailure(kept)
    ELSE ListResult(LimitOffset(OrderBy(matching, "created_at DESC", tie),
                                IntOf(limit), IntOf(offset)),
                    IntOf(page), IntOf(limit), Len(matching),
                    TotalPages(Len(matching), IntOf(limit)), kept)

ListWhere(rows, w, page, limit, offset, tie, nanBind, kept) ==
    IF w.priority # Null /\ w.priority[1].t = "nan" /\ nanBind = "reject"
    THEN ListFailure(kept)
    ELSE ListQueries(SelectSeq(rows, LAMBDA r : RowMatches(r, w)),
                     page, limit, offset, tie, kept)

ListPaged(req, rows, sec, page, limit, offset, tie, nanBind) ==
    ListWhere(rows, WhereParams(req, sec), page, limit, offset, tie, nanBind,
              Kept(req, sec, page, limit, offset))

ListFrom(req, rows, sec, page, limit, tie, nanBind) ==
    ListPaged(req, rows, sec, page, limit, Offset(page, limit), tie, nanBind)

GetFeedbackResponse(req, rows, sec, tie, nanBind) ==
    ListFrom(req, rows, sec, EffectivePage(req.page), EffectiveLimit(req.limit), tie, nanBind)

handleGetFeedback(req) ==
    \E tie \in TieOrders,
       nanBind \in IF WhereParams(req, now).priority \in {Nullable(JsNaN)}
                   THEN NaNBinds ELSE {"null"} :
        /\ resp' = GetFeedbackResponse(req, store, now, tie, nanBind)
        /\ UNCHANGED <<store, lastId, now, posted, seeded, ticks, walk, call, seeding, inflight>>

\* handleGetFeedback statement by statement: the count query, then the data
\* query, each answered from the store as it is when it runs.

\* The response with the total of the count query in the place of that of
\* the rows the data query saw
WithCount(r, total) ==
    IF r.status # 200 THEN r
    ELSE [r EXCEPT !.body.pagination.total = total,
                   !.body.pagination.totalPages = TotalPages(total, r.body.pagination.limit),
                   !.body.pagination.hasNext =
                       r.body.pagination.page < TotalPages(total, r.body.pagination.limit)]

\* SELECT COUNT(*) as total FROM feedback WHERE ...; a request that fails
\* is answered at once
ListCounted(req, r) ==
    IF r.status # 200
    THEN resp' = r /\ UNCHANGED inflight
    ELSE /\ inflight' = [handler |-> "handleGetFeedback", request |-> req, now |-> now,
                         total |-> r.body.pagination.total]
         /\ UNCHANGED resp

ListCount(req) ==
    /\ inflight = NoFlight
    /\ ListCounted(req, GetFeedbackResponse(req, store, now, "rowid asc", "null"))
    /\ UNCHANGED <<store, lastId, now, posted, seeded, ticks, walk, call, seeding>>

\* SELECT * FROM feedback WHERE ... ORDER BY created_at DESC LIMIT ? OFFSET ?,
\* and the response
ListData ==
    /\ inflight.handler = "handleGetFeedback"
    /\ \E tie \in TieOrders :
          resp' = WithCount(GetFeedbackResponse(inflight.request, store, inflight.now,
                                                tie, "null"),
                            inflight.total)
    /\ inflight' = NoFlight
    /\ UNCHANGED <<store, lastId, now, posted, seeded, ticks, walk, call, seeding>>

-----------------------------------------------------------------------------
(* PATCH /api/feedback/:id *)

JsBoolean(b) == [t |-> "boolean", v |-> b]

\* body: [kind, addressed], kind as for POST /api/feedback
PatchBody(addressed) == [kind |-> "object", addressed |-> addressed]

\* A body that carries other fields beside addressed
PatchBodyWith(addressed) ==
    [kind |-> "object", addressed |-> addressed, id |-> JsNumber(20),
     content |-> JsString("other"), priority |-> JsNumber(10), themes |-> JsArray(<<>>)]

\* An UPDATE without its WHERE clause
UpdateEveryRow(rows, id, addressed, addressedAt) ==
    [i \in DOMAIN rows |->
        [rows[i] EXCEPT !.addressed = addressed, !.addressed_at = addressedAt]]

\* An UPDATE that sets addressed and leaves addressed_at as it is
UpdateFlagOnly(rows, id, addressed, addressedAt) ==
    [i \in DOMAIN rows |->
        IF rows[i].id = id THEN [rows[i] EXCEPT !.addressed = addressed] ELSE rows[i]]

\* UPDATE feedback SET addressed = ?, addressed_at = ? WHERE id = ?
UpdateAddressed(rows, id, addressed, addressedAt) ==
    [i \in DOMAIN rows |->
        IF rows[i].id = id
        THEN [rows[i] EXCEPT !.addressed = addressed, !.addressed_at = addressedAt]
        ELSE rows[i]]

\* A SELECT without its WHERE clause
SelectFirst(rows, id) == SubSeq(rows, 1, IF rows = <<>> THEN 0 ELSE 1)

\* SELECT * FROM feedback WHERE id = ?, first(): the row as a sequence of
\* at most one element
SelectById(rows, id) == SelectSeq(rows, LAMBDA r : r.id = id)

\* The response once the record was fetched again
PatchedResponse(result) ==
    IF result = <<>>
    THEN Response("handlePatchFeedback", 404, ErrorBody("Feedback not found"))
    ELSE IF ~JSONParse(result[1].themes).ok
    THEN Response("handlePatchFeedback", 500, ErrorBody("Failed to update feedback"))
    ELSE Response("handlePatchFeedback", 200,
                  [success |-> TRUE, feedback |-> WithParsedThemes(result[1])])

\* GET /api/feedback/:id
FetchedResponse(result) ==
    IF result = <<>>
    THEN Response("handleGetFeedbackById", 404, ErrorBody("Feedback not found"))
    ELSE IF ~JSONParse(result[1].themes).ok
    THEN Response("handleGetFeedbackById", 500, ErrorBody("Failed to fetch feedback"))
    ELSE Response("handleGetFeedbackById", 200,
                  [success |-> TRUE, feedback |-> WithParsedThemes(result[1])])

handleGetFeedbackById(id) ==
    /\ resp' = FetchedResponse(SelectById(store, IntOf(ParseInt(id))))
    /\ UNCHANGED <<store, lastId, now, posted, seeded, ticks, walk, call, seeding, inflight>>

\* id: the digits the router matched with (\d+)
handlePatchFeedback(id, body) ==
    /\ IF body.kind # "object"
       THEN /\ resp' = Response("handlePatchFeedback", 500, ErrorBody("Failed to update feedback"))
            /\ UNCHANGED store
       ELSE IF body.addressed.t = "boolean"
       THEN /\ store' = UpdateAddressed(store, IntOf(ParseInt(id)),
                                        IF body.addressed.v THEN 1 ELSE 0,
                                        IF body.addressed.v THEN SqlValue(toISOString(now))
                                        ELSE SqlNull)
            /\ resp' = PatchedResponse(SelectById(store', IntOf(ParseInt(id))))
       ELSE /\ resp' = Response("handlePatchFeedback", 400, ErrorBody("No valid fields to update"))
            /\ UNCHANGED store
    /\ UNCHANGED <<lastId, now, posted, seeded, ticks, walk, call, seeding, inflight>>

\* handlePatchFeedback statement by statement, for a body with a boolean
\* addressed: the UPDATE, then the SELECT of the record, each on the store
\* as it is when it runs.
PatchFlight(id, addressed) ==
    [handler |-> "handlePatchFeedback", id |-> id, addressed |-> addressed]

\* await env.DB.prepare('UPDATE feedback SET ... WHERE id = ?').bind(...).run()
PatchUpdate(id, body) ==
    /\ inflight = NoFlight
    /\ body.kind = "object"
    /\ body.addressed.t = "boolean"
    /\ store' = UpdateAddressed(store, IntOf(ParseInt(id)),
                                IF body.addressed.v THEN 1 ELSE 0,
                                IF body.addressed.v THEN SqlValue(toISOString(now))
                                ELSE SqlNull)
    /\ inflight' = PatchFlight(IntOf(ParseInt(id)), body.addressed.v)
    /\ UNCHANGED <<lastId, now, posted, seeded, ticks, resp, walk, call, seeding>>

\* await env.DB.prepare('SELECT * FROM feedback WHERE id = ?').bind(id).first(),
\* and the response
PatchRead ==
    /\ inflight.handler = "handlePatchFeedback"
    /\ resp' = PatchedResponse(SelectById(store, inflight.id))
    /\ inflight' = NoFlight
    /\ UNCHANGED <<store, lastId, now, posted, seeded, ticks, walk, call, seeding>>

-----------------------------------------------------------------------------
(* The router *)

pathRoot == <<"/">>
pathApi == <<"/", "a", "p", "i">>
pathFeedback == pathApi \o <<"/", "f", "e", "e", "d", "b", "a", "c", "k">>
pathInsights == pathApi \o <<"/", "i", "n", "s", "i", "g", "h", "t", "s">>
pathThemes == pathApi \o <<"/", "t", "h", "e", "m", "e", "s">>
pathAIInsights == pathApi \o <<"/", "a", "i", "-", "i", "n", "s", "i", "g", "h", "t", "s">>
pathSeed == pathApi \o <<"/", "s", "e", "e", "d">>

\* path.startsWith(prefix)
StartsWith(path, prefix) ==
    Len(path) >= Len(prefix) /\ SubSeq(path, 1, Len(prefix)) = prefix

\* path.match(/^\/api\/feedback\/(\d+)$/): whether it matches, and group 1
FeedbackIdMatch(path) ==
    /\ StartsWith(path, pathFeedback \o <<"/">>)
    /\ Len(path) > Len(pathFeedback) + 1
    /\ \A i \in (Len(pathFeedback) + 2)..Len(path) : path[i] \in Range(DigitChars)

FeedbackIdGroup(path) == SubSeq(path, Len(pathFeedback) + 2, Len(path))

Request(method, path, query, body) ==
    [method |-> method, path |-> path, query |-> query, body |-> body]

\* new Response(null, { headers: corsHeaders })
Preflight ==
    /\ resp' = Response("fetch", 200, Null)
    /\ UNCHANGED <<store, lastId, now, posted, seeded, ticks, walk, call, seeding, inflight>>

\* new Response(getDashboardHTML(), { headers: { 'Content-Type': 'text/html' } })
Dashboard ==
    /\ resp' = Response("getDashboardHTML", 200, [contentType |-> "text/html"])
    /\ UNCHANGED <<store, lastId, now, posted, seeded, ticks, walk, call, seeding, inflight>>

\* Response.json({ error: 'Not found' }, { status: 404 })
UnknownRoute ==
    /\ resp' = Response("fetch", 404, ErrorBody("Not found"))
    /\ UNCHANGED <<store, lastId, now, posted, seeded, ticks, walk, call, seeding, inflight>>

\* fetch(request, env): ai is the answer env.AI gives if the handler asks.
\* Every handler catches its own errors, so the router's catch is not reached.
fetch(request, ai) ==
    IF request.method = "OPTIONS" THEN Preflight
    ELSE IF request.path = pathFeedback /\ request.method = "POST"
    THEN handlePostFeedback(request.body, ai)
    ELSE IF request.path = pathFeedback /\ request.method = "GET"
    THEN handleGetFeedback(request.query)
    ELSE IF FeedbackIdMatch(request.path) /\ request.method = "GET"
    THEN handleGetFeedbackById(FeedbackIdGroup(request.path))
    ELSE IF FeedbackIdMatch(request.path) /\ request.method = "PATCH"
    THEN handlePatchFeedback(FeedbackIdGroup(request.path), request.body)
    ELSE IF request.path = pathInsights /\ request.method = "GET" THEN handleGetInsights
    ELSE IF request.path = pathThemes /\ request.method = "GET" THEN handleGetThemes
    ELSE IF request.path = pathAIInsights /\ request.method = "GET" THEN handleGetAIInsights
    ELSE IF request.path = pathSeed /\ request.method = "POST" THEN handleSeed
    ELSE IF request.path = pathRoot \/ ~StartsWith(request.path, pathApi) THEN Dashboard
    ELSE UnknownRoute
-----------------------------------------------------------------------------
(* A client that reads GET /api/feedback page by page *)

Ids(rows) == [i \in DOMAIN rows |-> rows[i].id]

\* The first request of a walk, page absent.  plan: the tie order of the plan
\* SQLite prepares for this SQL text; it depends on the text and on the
\* statistics tables, which nothing here changes, so it is that of every page.
WalkStart(req, plan) ==
    /\ resp' = GetFeedbackResponse(req, store, now, plan, "null")
    /\ walk' = IF resp'.status = 200
               THEN [active |-> TRUE, request |-> req, plan |-> plan, page |-> 1,
                     pages |-> <<Ids(resp'.body.feedback)>>,
                     totalPages |-> resp'.body.pagination.totalPages]
               ELSE [active |-> FALSE]
    /\ UNCHANGED <<store, lastId, now, posted, seeded, ticks, call, seeding, inflight>>

\* The next page, while the last response said there is one
WalkNext ==
    /\ walk.active
    /\ walk.page < walk.totalPages
    /\ resp' = GetFeedbackResponse([walk.request EXCEPT !.page = Nullable(NatToString(walk.page + 1))],
                                   store, now, walk.plan, "null")
    /\ walk' = IF resp'.status = 200
               THEN [walk EXCEPT !.page = @ + 1,
                                 !.pages = Append(@, Ids(resp'.body.feedback)),
                                 !.totalPages = resp'.body.pagination.totalPages]
               ELSE [active |-> FALSE]
    /\ UNCHANGED <<store, lastId, now, posted, seeded, ticks, call, seeding, inflight>>

-----------------------------------------------------------------------------
(* The aggregation specification: submissions, the clock and the analytics *)

\* Theme texts the classifier answers with
themeBeta == <<"B", "e", "t", "a", " ">>
themeUi == <<" ", "u", "i">>
themeKv == <<"k", "v">>
themeDb == <<"D", "B">>
theme404 == <<"4", "0", "4">>
theme7 == <<"7">>
themeBlank == <<" ">>

TextOf(o) == <<Piece("junk"), ObjPiece(o)>>
Answer(s, c, p, th) ==
    [ok |-> TRUE,
     text |-> TextOf(Analysis(JsString(s), JsString(c), JsNumber(p),
                              JsArray([i \in DOMAIN th |-> JsString(th[i])])))]

AggResponses ==
    {[ok |-> FALSE, text |-> <<>>],
     Answer("negative", "bug", 50, <<themeBeta, themeBlank, themeKv>>),
     Answer("negative", "complaint", 40, <<theme404, themeUi, themeDb, theme7>>),
     Answer("negative", "bug", 20, <<protoKey>>),
     Answer("negative", "feature", 30, <<themeBlank>>),
     Answer("positive", "praise", 44, <<themeUi, themeBeta, themeUi>>)}

AggBody == PostBody(JsString("text"), JsString("github"))

NoResponse == Response("none", 0, ErrorBody(""))
NoWalk == [active |-> FALSE]
NoCall == [ok |-> FALSE, text |-> <<>>]

Init ==
    /\ store = <<>>
    /\ lastId = 0
    /\ now = 0
    /\ posted = 0
    /\ seeded = 0
    /\ ticks = 0
    /\ resp = NoResponse
    /\ walk = NoWalk
    /\ call = NoCall
    /\ seeding = 0
    /\ inflight = NoFlight

PostAgg == posted < MaxPosts /\ \E ai \in AggResponses : handlePostFeedback(AggBody, ai)
TickHour == ticks < MaxTicks /\ Tick(SecPerHour)

Next ==
    \/ PostAgg
    \/ TickHour
    \/ handleGetInsights
    \/ handleGetAIInsights

Spec == Init /\ [][Next]_vars

-----------------------------------------------------------------------------
(* The statistics specification: many submissions, GET /api/insights *)

StatResponses ==
    {[ok |-> FALSE, text |-> <<>>],
     Answer("negative", "bug", 50, <<themeBeta>>),
     Answer("positive", "feature", 40, <<>>)}

PostStat == posted < MaxStatPosts /\ \E ai \in StatResponses : handlePostFeedback(AggBody, ai)

NextStats ==
    \/ PostStat
    \/ TickHour
    \/ handleGetInsights

SpecStats == Init /\ [][NextStats]_vars

-----------------------------------------------------------------------------
(* The paging specification: GET /api/feedback with page and limit *)

AIFailure == [ok |-> FALSE, text |-> <<>>]

PageParams ==
    {Null, Nullable(<<>>), Nullable(<<"0">>), Nullable(<<"-", "3">>), Nullable(<<"2">>),
     Nullable(<<"7">>), Nullable(<<"a", "b", "c">>)}

LimitParams ==
    {Null, Nullable(<<>>), Nullable(<<"0">>), Nullable(<<"-", "3">>), Nullable(<<"1">>),
     Nullable(<<"2">>), Nullable(<<"1", "5", "0">>), Nullable(<<"a", "b", "c">>),
     Nullable(<<"2", "x">>)}

PostPage == posted < MaxPagePosts /\ handlePostFeedback(AggBody, AIFailure)

ListPage ==
    \E page \in PageParams, limit \in LimitParams :
        handleGetFeedback(ListRequest(Null, Null, Null, Null, Null, page, limit))

NextPaging ==
    \/ PostPage
    \/ ListPage

SpecPaging == Init /\ [][NextPaging]_vars

-----------------------------------------------------------------------------
(* The page-walk specification: a client reads every page of one query *)

WalkSources == {Null, Nullable("github")}
WalkLimits == {Nullable(<<"1">>), Nullable(<<"2">>)}

PostWalk ==
    /\ posted < MaxWalkPosts
    /\ ~walk.active
    /\ \E source \in {"github", "twitter"} :
          handlePostFeedback(PostBody(JsString("text"), JsString(source)), AIFailure)

TickWalk == ~walk.active /\ TickHour

StartWalk ==
    \E source \in WalkSources, limit \in WalkLimits, plan \in TieOrders :
        WalkStart(ListRequest(source, Null, Null, Null, Null, Null, limit), plan)

NextWalk ==
    \/ PostWalk
    \/ TickWalk
    \/ StartWalk
    \/ WalkNext

SpecWalk == Init /\ [][NextWalk]_vars

-----------------------------------------------------------------------------
(* The filter specification: GET /api/feedback with the four column filters *)

FilterPosts ==
    {<<"github", AIFailure>>,
     <<"github", Answer("negative", "bug", 40, <<>>)>>,
     <<"twitter", Answer("negative", "bug", 30, <<>>)>>,
     <<"github", Answer("negative", "complaint", 30, <<>>)>>}

PostFilter ==
    /\ posted < MaxFilterPosts
    /\ \E p \in FilterPosts : handlePostFeedback(PostBody(JsString("text"), JsString(p[1])), p[2])

ListFiltered ==
    \E source \in {Null, Nullable(""), Nullable("github")},
       sentiment \in {Null, Nullable("negative")},
       category \in {Null, Nullable("bug")},
       priority \in {Null, Nullable(<<"3">>), Nullable(<<"a", "b", "c">>)} :
        handleGetFeedback(ListRequest(source, sentiment, category, priority, Null, Null, Null))

NextFilter ==
    \/ PostFilter
    \/ ListFiltered

SpecFilter == Init /\ [][NextFilter]_vars

-----------------------------------------------------------------------------
(* The date-range specification: GET /api/feedback with dateRange *)

DateSteps == {SecPerHour, 23 * SecPerHour, 6 * SecPerDay}
DateRanges == {Null, Nullable(""), Nullable("24h"), Nullable("7d"), Nullable("30d"), Nullable("1y")}

PostDate == posted < MaxDatePosts /\ handlePostFeedback(AggBody, AIFailure)

TickDate == ticks < MaxDateTicks /\ \E d \in DateSteps : Tick(d)

ListDated ==
    \E dateRange \in DateRanges :
        handleGetFeedback(ListRequest(Null, Null, Null, Null, dateRange, Null, Null))

NextDate ==
    \/ PostDate
    \/ TickDate
    \/ ListDated

SpecDate == Init /\ [][NextDate]_vars

-----------------------------------------------------------------------------
(* The sentiment-trend specification: GET /api/ai-insights over the stores *)
(* that submissions without themes, one a second, leave: every store of up *)
(* to MaxMixedRows rows, and those of MidTrendRows and of MaxTrendRows rows *)
(* whose halves each hold no positive or no negative row.                   *)
TrendSizes == (1..MaxMixedRows) \cup {MidTrendRows, MaxTrendRows}


\* The sentiment of the row at place j from the newest, when the m newest
\* rows hold rp positive and rn negative ones and the others op and on.
TrendSentiment(j, m, rp, rn, op, on) ==
    IF j <= m
    THEN (IF j <= rp THEN "positive" ELSE IF j <= rp + rn THEN "negative" ELSE "neutral")
    ELSE (IF j - m <= op THEN "positive" ELSE IF j - m <= op + on THEN "negative"
          ELSE "neutral")

TrendStore(n, rp, rn, op, on) ==
    [id \in 1..n |->
        NewRow(id, "github", "text",
               [sentiment |-> TrendSentiment(n + 1 - id, SliceAt(n), rp, rn, op, on),
                category |-> "complaint", priority |-> DefaultPriority],
               JSONStringify(<<>>), id - 1)]

InitTrend ==
    \E n \in TrendSizes :
        \E rp \in 0..Min(SliceAt(n), n), op \in 0..(n - Min(SliceAt(n), n)) :
            \E rn \in 0..(Min(SliceAt(n), n) - rp), on \in 0..(n - Min(SliceAt(n), n) - op) :
                /\ n > MaxMixedRows => (rp = 0 \/ rn = 0) /\ (op = 0 \/ on = 0)
                /\ store = TrendStore(n, rp, rn, op, on)
                /\ lastId = n
                /\ now = n
                /\ posted = n
                /\ seeded = 0
                /\ ticks = 0
                /\ resp = NoResponse
                /\ walk = NoWalk
                /\ call = NoCall
                /\ seeding = 0
                /\ inflight = NoFlight

NextTrend == handleGetAIInsights

SpecTrend == InitTrend /\ [][NextTrend]_vars

-----------------------------------------------------------------------------
(* The invalid-themes specification: the table also receives rows from      *)
(* another client of the database, which the schema checks but whose themes *)
(* text the worker did not write; then the three aggregation calls.         *)

\* INSERT INTO feedback (...) by another client: any themes TEXT passes
DirectInsert(a, themesText) ==
    \E row \in {NewRow(lastId + 1, "support", "text", a, themesText, now)} :
        /\ ChecksPass(row)
        /\ store' = Append(store, row)
        /\ lastId' = lastId + 1
        /\ posted' = posted + 1
        /\ resp' = NoResponse
        /\ UNCHANGED <<now, seeded, ticks, walk, call, seeding, inflight>>

\* The text [ (no JSON), and the JSON string "ui" (no array)
ForeignThemes == {<<Tok("[")>>, <<StrTok(themeUi)>>}

ForeignAnalyses ==
    {[sentiment |-> s, category |-> "bug", priority |-> p] :
        s \in {"negative", "positive"}, p \in {2, 5}}

ThemeResponses ==
    {Answer("negative", "bug", 50, <<themeUi, themeBeta>>),
     Answer("positive", "praise", 20, <<themeBeta>>)}

PostThemes ==
    posted < MaxThemeRows /\ \E ai \in ThemeResponses : handlePostFeedback(AggBody, ai)

InsertThemes ==
    posted < MaxThemeRows /\ \E a \in ForeignAnalyses, t \in ForeignThemes : DirectInsert(a, t)

NextThemes ==
    \/ PostThemes
    \/ InsertThemes
    \/ handleGetInsights
    \/ handleGetThemes
    \/ handleGetAIInsights

SpecThemes == Init /\ [][NextThemes]_vars

-----------------------------------------------------------------------------
(* The classifier specification: one submission, over the answers the       *)
(* classifier can give: a failed call, prose, broken JSON, objects whose    *)
(* fields are missing, of the wrong type or out of their domain, and an     *)
(* object with text around it.                                              *)

themeEmpty == <<>>
wordHigh == <<"h", "i", "g", "h">>
wordFour == <<" ", "4">>

\* sentiment and category as the classifier writes them
ClassifyLabels ==
    {<<JsString("positive"), JsString("praise")>>,
     <<JsString("negative"), JsString("bug")>>,
     <<JsString("Positive"), JsString("question")>>,
     <<JsNumber(10), JsArray(<<JsString("bug")>>)>>,
     <<JsUndefined, JsNull>>}

\* priority as the classifier writes it: numbers (in tenths) and other values
ClassifyPriorities ==
    {JsNumber(t) : t \in {-20, -6, -5, -4, 0, 4, 5, 10, 14, 15, 25, 30, 44, 50, 54, 55, 60, 1000}}
        \cup {JsString(wordFour), JsString(wordHigh), JsString(themeEmpty), JsNull, JsUndefined,
              JsArray(<<JsNumber(40)>>), JsArray(<<JsNumber(10), JsNumber(20)>>)}

\* themes as the classifier writes them
ClassifyThemes ==
    {JsArray(<<>>),
     JsArray(<<JsString(themeBeta), JsString(themeUi)>>),
     JsArray(<<JsString(themeKv), JsString(themeKv)>>),
     JsArray(<<JsString(themeBlank), JsString(themeKv)>>),
     JsArray(<<JsString(themeEmpty)>>),
     JsArray(<<JsNumber(70), JsNull, JsString(themeDb)>>),
     JsArray(<<JsString(themeKv), JsString(themeDb), JsString(theme404), JsString(theme7),
               JsString(themeUi), JsString(themeBeta)>>),
     JsString(themeUi),
     JsNull,
     JsUndefined}

ClassifyObjects ==
    {Analysis(l[1], l[2], p, JsArray(<<JsString(themeUi)>>)) :
        l \in ClassifyLabels, p \in ClassifyPriorities}
    \cup {Analysis(l[1], l[2], JsNumber(40), th) : l \in ClassifyLabels, th \in ClassifyThemes}

\* Objects that differ from the default analysis in every field
TrailObjects ==
    {Analysis(JsString("negative"), JsString("bug"), JsNumber(50), JsArray(<<JsString(themeUi)>>)),
     Analysis(JsString("positive"), JsString("praise"), JsNumber(10), JsArray(<<JsString(themeKv)>>))}

\* Texts with no object, or with braces that hold no JSON
BrokenTexts ==
    {<<>>,
     <<Piece("junk")>>,
     <<Piece("open"), Piece("junk")>>,
     <<Piece("close"), Piece("junk"), Piece("open")>>,
     <<Piece("open"), Piece("junk"), Piece("close")>>,
     <<Piece("junk"), Piece("open"), Piece("close")>>}

\* An object with text after it, or with braces before it
TrailTexts ==
    {<<ObjPiece(o), Piece("junk")>> : o \in TrailObjects}
    \cup {<<Piece("junk"), ObjPiece(o), Piece("junk"), Piece("close")>> : o \in TrailObjects}
    \cup {<<ObjPiece(o), Piece("close"), Piece("junk")>> : o \in TrailObjects}
    \cup {<<ObjPiece(o), Piece("junk"), ObjPiece(q)>> : o \in TrailObjects, q \in TrailObjects}
    \cup {<<Piece("close"), ObjPiece(o)>> : o \in TrailObjects}
    \cup {<<Piece("open"), ObjPiece(o)>> : o \in TrailObjects}

ClassifyResponses ==
    {[ok |-> FALSE, text |-> <<>>]}
    \cup {[ok |-> TRUE, text |-> t] : t \in BrokenTexts \cup TrailTexts}
    \cup {[ok |-> TRUE, text |-> TextOf(o)] : o \in ClassifyObjects}

PostClassify ==
    posted < MaxClassifyPosts /\ \E ai \in ClassifyResponses : handlePostFeedback(AggBody, ai)

NextClassify == PostClassify

SpecClassify == Init /\ [][NextClassify]_vars

-----------------------------------------------------------------------------
(* The addressed specification: submissions, PATCH /api/feedback/:id with   *)
(* addressed true and false, and POST /api/seed, whose statements the other *)
(* requests interleave with.                                                *)

\* Ids of the first rows, of the last row, and of no row
PatchIds == {<<"1">>, <<"2">>, <<"3", "1">>, <<"9", "9">>}

\* Bodies without a boolean addressed
OtherPatchBodies ==
    {PatchBody(JsUndefined), PatchBody(JsNumber(10)), [kind |-> "malformed"], [kind |-> "null"]}

PostMark ==
    /\ posted < MaxMarkPosts
    /\ handlePostFeedback(AggBody, Answer("negative", "bug", 50, <<themeUi>>))

MarkBodies(v) == {PatchBody(JsBoolean(v)), PatchBodyWith(JsBoolean(v))}

MarkAddressed == \E id \in PatchIds, body \in MarkBodies(TRUE) : handlePatchFeedback(id, body)
MarkUnaddressed == \E id \in PatchIds, body \in MarkBodies(FALSE) : handlePatchFeedback(id, body)
PatchNothing == \E id \in PatchIds, body \in OtherPatchBodies : handlePatchFeedback(id, body)

Reseed == seeded < MaxSeeds /\ SeedDelete

NextMark ==
    \/ PostMark
    \/ MarkAddressed
    \/ MarkUnaddressed
    \/ PatchNothing
    \/ Reseed
    \/ SeedInsert
    \/ SeedRespond

SpecMark == Init /\ [][NextMark]_vars

-----------------------------------------------------------------------------
(* The validation specification: submissions and marks with bodies the      *)
(* handlers must reject, among valid ones.                                  *)

\* A body that is no JSON, the JSON null, and objects whose content or
\* source is missing, empty, of another type or out of its domain
InvalidPostBodies ==
    {[kind |-> "malformed"],
     [kind |-> "null"],
     PostBody(JsUndefined, JsString("github")),
     PostBody(JsNull, JsString("github")),
     PostBody(JsString(""), JsString("github")),
     PostBody(JsNumber(50), JsString("github")),
     PostBody(JsArray(<<JsString("text")>>), JsString("github")),
     PostBody(JsString("text"), JsUndefined),
     PostBody(JsString("text"), JsString("")),
     PostBody(JsString("text"), JsString("email")),
     PostBody(JsString("text"), JsNumber(10)),
     PostBody(JsString("text"), JsArray(<<JsString("github")>>))}

\* Objects whose addressed is missing or no boolean
InvalidPatchBodies ==
    {PatchBody(JsUndefined), PatchBody(JsNull), PatchBody(JsNumber(10)),
     PatchBody(JsString("true")), PatchBody(JsArray(<<>>))}

InputResponses ==
    {[ok |-> FALSE, text |-> <<>>],
     Answer("negative", "bug", 50, <<themeUi>>),
     Answer("positive", "praise", 20, <<themeKv>>)}

InputIds == {<<"1">>, <<"2">>, <<"9">>}

PostValid ==
    posted < MaxInputPosts /\ \E ai \in InputResponses : handlePostFeedback(AggBody, ai)

PostInvalid ==
    /\ posted < MaxInputPosts
    /\ \E body \in InvalidPostBodies, ai \in InputResponses : handlePostFeedback(body, ai)

PatchValid ==
    \E id \in InputIds, v \in BOOLEAN : handlePatchFeedback(id, PatchBody(JsBoolean(v)))

PatchInvalid ==
    \E id \in InputIds, body \in InvalidPatchBodies : handlePatchFeedback(id, body)

GetById == \E id \in InputIds : handleGetFeedbackById(id)

NextInput ==
    \/ GetById
    \/ PostValid
    \/ PostInvalid
    \/ PatchValid
    \/ PatchInvalid

SpecInput == Init /\ [][NextInput]_vars

-----------------------------------------------------------------------------
(* The snapshot specification: GET /api/insights and GET /api/feedback taken *)
(* statement by statement, with submissions between their statements.        *)

SnapResponses ==
    {Answer("negative", "bug", 50, <<themeUi>>),
     Answer("positive", "praise", 20, <<themeKv>>)}

SnapRequests ==
    {ListRequest(Null, Null, Null, Null, Null, Null, Null),
     ListRequest(Null, Nullable("negative"), Null, Null, Null, Null, Nullable(<<"2">>))}

PostSnap == posted < MaxSnapPosts /\ \E ai \in SnapResponses : handlePostFeedback(AggBody, ai)

ListSnap == \E req \in SnapRequests : ListCount(req)

NextSnapshot ==
    \/ PostSnap
    \/ InsightsTotal
    \/ InsightsSentiment
    \/ InsightsCategory
    \/ InsightsThemes
    \/ InsightsHighPriority
    \/ ListSnap
    \/ ListData

SpecSnapshot == Init /\ [][NextSnapshot]_vars

-----------------------------------------------------------------------------
(* The theme-groups specification: submissions whose themes overlap, one of *)
(* them naming a theme twice, and GET /api/themes.                          *)

themeUpper == <<"U", "I">>

GroupResponses ==
    {Answer("negative", "bug", 50, <<themeUi>>),
     Answer("positive", "praise", 20, <<themeBeta, themeUi>>),
     Answer("neutral", "question", 30, <<themeKv, themeBeta>>),
     Answer("negative", "bug", 40, <<themeUi, themeUpper>>)}

PostGroups ==
    posted < MaxGroupPosts /\ \E ai \in GroupResponses : handlePostFeedback(AggBody, ai)

NextGroups ==
    \/ PostGroups
    \/ handleGetThemes

SpecGroups == Init /\ [][NextGroups]_vars

-----------------------------------------------------------------------------
(* The router specification: requests of every method to the paths of the   *)
(* router, to those of the README's table and to paths of neither, one      *)
(* after the other, a reseed being the last of them.                        *)

\* /api/stats, as the README's table has it
pathStats == pathApi \o <<"/", "s", "t", "a", "t", "s">>
pathOther == pathApi \o <<"/", "x">>
pathPage == <<"/", "x">>

PathOfId(id) == pathFeedback \o <<"/">> \o id

RouteIds == {<<"1">>, <<"9">>}

RoutePaths ==
    {pathRoot, pathFeedback, pathStats, pathInsights, pathThemes, pathAIInsights,
     pathSeed, pathOther, pathPage} \cup {PathOfId(id) : id \in RouteIds}

RouteMethods == {"GET", "POST", "PATCH", "DELETE", "OPTIONS"}

RouteQuery == ListRequest(Null, Null, Null, Null, Null, Null, Null)

\* One body for every request: the fields of a submission and of a mark
RouteBodies ==
    {[kind |-> "object", content |-> JsString("text"), source |-> JsString("github"),
      addressed |-> JsBoolean(v)] : v \in BOOLEAN}

RouteAnswers == {Answer("negative", "bug", 50, <<themeUi>>)}

RouteRequests ==
    {Request(m, p, RouteQuery, b) : m \in RouteMethods, p \in RoutePaths, b \in RouteBodies}

IsSeedRequest(request) == request.method = "POST" /\ request.path = pathSeed

IsPostRequest(request) == request.method = "POST" /\ request.path = pathFeedback

ServeRequest(request, ai) ==
    /\ IF IsSeedRequest(request) THEN seeding > 0 \/ seeded < MaxRouteSeeds
       ELSE seeding = 0 /\ seeded = 0
    /\ IsPostRequest(request) => posted < MaxRoutePosts
    /\ fetch(request, ai)

Serve == \E request \in RouteRequests, ai \in RouteAnswers : ServeRequest(request, ai)

NextRouter == Serve

SpecRouter == Init /\ [][NextRouter]_vars

-----------------------------------------------------------------------------
(* The repeated-mark specification: marks of either value on the same       *)
(* records, the clock advancing between them.                               *)

PostRemark ==
    /\ posted < MaxRemarkPosts
    /\ handlePostFeedback(AggBody, Answer("negative", "bug", 50, <<themeUi>>))

TickRemark == ticks < MaxRemarkTicks /\ Tick(SecPerHour)

Remark ==
    \E id \in {<<"1">>, <<"2">>}, v \in BOOLEAN : handlePatchFeedback(id, PatchBody(JsBoolean(v)))

NextRemark ==
    \/ PostRemark
    \/ TickRemark
    \/ Remark

SpecRemark == Init /\ [][NextRemark]_vars

-----------------------------------------------------------------------------
(* The concurrent-marks specification: one mark taken statement by          *)
(* statement, the marks of other clients running before, between and after  *)
(* its two statements; submissions happen while no mark is in flight.       *)

RaceIds == {<<"1">>, <<"2">>}

PostRace ==
    /\ inflight = NoFlight
    /\ posted < MaxRacePosts
    /\ handlePostFeedback(AggBody, Answer("negative", "bug", 50, <<themeUi>>))

MarkUpdate == \E id \in RaceIds, v \in BOOLEAN : PatchUpdate(id, PatchBody(JsBoolean(v)))

MarkOther ==
    \E id \in RaceIds, v \in BOOLEAN : handlePatchFeedback(id, PatchBody(JsBoolean(v)))

TickRace == ticks < MaxRaceTicks /\ Tick(SecPerHour)

NextRace ==
    \/ PostRace
    \/ TickRace
    \/ MarkUpdate
    \/ MarkOther
    \/ PatchRead

SpecRace == Init /\ [][NextRace]_vars

-----------------------------------------------------------------------------
(* The theme-ranking specification: submissions that carry six themes in    *)
(* all, the clock advancing between them, and the two calls that rank the   *)
(* themes.                                                                  *)

themeApi == <<"a", "p", "i">>
themeCss == <<"c", "s", "s">>

RankResponses ==
    {Answer("negative", "bug", 50, <<themeKv, themeBeta, themeUi>>),
     Answer("positive", "praise", 20, <<themeDb, themeApi, themeCss>>),
     Answer("neutral", "question", 30, <<themeUi>>)}

PostRank ==
    posted < MaxRankPosts /\ \E ai \in RankResponses : handlePostFeedback(AggBody, ai)

TickRank == ticks < MaxRankTicks /\ Tick(SecPerHour)

NextRank ==
    \/ PostRank
    \/ TickRank
    \/ handleGetInsights
    \/ handleGetAIInsights

SpecRank == Init /\ [][NextRank]_vars

-----------------------------------------------------------------------------
(* The reseed specification: POST /api/seed run after run, a run failing    *)
(* part-way when the database rejects a statement, with submissions and     *)
(* marks before and between the runs.                                       *)

PostSeeded ==
    /\ seeding = 0
    /\ posted < MaxSeedPosts
    /\ handlePostFeedback(AggBody, Answer("negative", "bug", 50, <<themeUi>>))

MarkSeeded ==
    /\ seeding = 0
    /\ store # <<>>
    /\ \E v \in BOOLEAN : handlePatchFeedback(NatToString(store[1].id), PatchBody(JsBoolean(v)))

ReseedAgain == seeded < MaxReseeds /\ SeedDelete

SeedRejected == SeedReject(MaxRejects)

NextSeed ==
    \/ PostSeeded
    \/ MarkSeeded
    \/ ReseedAgain
    \/ SeedInsert
    \/ SeedRejected
    \/ SeedSettle
    \/ SeedRespond

SpecSeed == Init /\ [][NextSeed]_vars

-----------------------------------------------------------------------------
(* Properties of GET /api/insights *)

IsInsights == resp.handler = "handleGetInsights" /\ resp.status = 200
insights == resp.body.insights

\* C1: with no writer during the call, the statistics hold exactly the three
\* sentiment keys, the three counts sum to total, and total is the number of
\* rows of the store.
C1_SentimentSumsToTotal ==
    IsInsights =>
        /\ DOMAIN insights.sentiment = {"positive", "negative", "neutral"}
        /\ \A k \in DOMAIN insights.sentiment :
              insights.sentiment[k] = Cardinality({i \in DOMAIN store : store[i].sentiment = k})
        /\ insights.sentiment["positive"] + insights.sentiment["negative"]
              + insights.sentiment["neutral"] = insights.total
        /\ insights.total = Len(store)

\* Statistics over at least three rows, one sentiment absent, one present
C1_Witness ==
    /\ IsInsights
    /\ insights.total >= 3
    /\ \E k \in DOMAIN insights.sentiment : insights.sentiment[k] = 0
    /\ \E k \in DOMAIN insights.sentiment : insights.sentiment[k] >= 2

Qualifying == {i \in DOMAIN store : store[i].priority >= 4}
Returned == {insights.highPriority[i].id : i \in DOMAIN insights.highPriority}

\* a ranks before b under (priority desc, created_at desc)
RanksBefore(a, b) ==
    \/ a.priority > b.priority
    \/ a.priority = b.priority /\ TextCompare(a.created_at, b.created_at) = 1

\* C3: highPriority holds only rows of priority >= 4, exactly min(5, number of
\* qualifying rows) of them, no row twice, in (priority desc, created_at desc)
\* order, and no qualifying row left out ranks before a returned one.
C3_HighPriority ==
    IsInsights =>
        LET hp == insights.highPriority
        IN  /\ \A i \in DOMAIN hp :
                  /\ hp[i].priority >= 4
                  /\ \E j \in Qualifying : store[j].id = hp[i].id
                                           /\ store[j].priority = hp[i].priority
                                           /\ store[j].created_at = hp[i].created_at
            /\ Len(hp) = Min(5, Cardinality(Qualifying))
            /\ Cardinality(Returned) = Len(hp)
            /\ \A i, j \in DOMAIN hp : i < j => ~RanksBefore(hp[j], hp[i])
            /\ \A j \in Qualifying :
                  store[j].id \notin Returned =>
                      \A i \in DOMAIN hp : ~RanksBefore(store[j], hp[i])

\* Five rows returned, a qualifying row left out, both priorities and two
\* creation times among the returned rows
C3_Witness ==
    /\ IsInsights
    /\ Len(insights.highPriority) = 5
    /\ Cardinality(Qualifying) >= 6
    /\ \E i, j \in DOMAIN insights.highPriority :
          insights.highPriority[i].priority # insights.highPriority[j].priority
    /\ \E i, j \in DOMAIN insights.highPriority :
          /\ insights.highPriority[i].priority = insights.highPriority[j].priority
          /\ insights.highPriority[i].created_at # insights.highPriority[j].created_at

-----------------------------------------------------------------------------
(* Theme mentions, read off the rows one by one *)

\* The normalized non-empty themes of the rows, in scanning order
RECURSIVE Mentions(_)
Mentions(rows) ==
    IF rows = <<>> THEN <<>>
    ELSE RowThemeKeys(Head(rows).themes) \o Mentions(Tail(rows))

Occurrences(sec, k) == Cardinality({i \in DOMAIN sec : sec[i] = k})
Mentioned(sec) == {sec[i] : i \in DOMAIN sec}
FirstAt(sec, k) == CHOOSE i \in DOMAIN sec : sec[i] = k /\ \A j \in 1..(i - 1) : sec[j] # k

\* C2: topThemes has at most 5 entries, each with the number of occurrences of
\* its theme over all rows, in non-increasing count order, themes of equal
\* count in the order of their first occurrence in a scan of the rows in id
\* order, whatever the theme text.
C2_TopThemes ==
    IsInsights =>
        LET tt == insights.topThemes
            sec == Mentions(store)
        IN  /\ Len(tt) <= 5
            /\ \A i \in DOMAIN tt : tt[i].count = Occurrences(sec, tt[i].theme)
            /\ \A i, j \in DOMAIN tt : i < j => tt[i].count >= tt[j].count
            /\ \A i, j \in DOMAIN tt :
                  (i < j /\ tt[i].count = tt[j].count) =>
                      FirstAt(sec, tt[i].theme) < FirstAt(sec, tt[j].theme)

\* C2, its last part: a second call on the unchanged store answers the same list
C2_Idempotent ==
    [][(IsInsights /\ resp'.handler = "handleGetInsights" /\ store' = store)
          => resp'.body.insights.topThemes = insights.topThemes]_vars

-----------------------------------------------------------------------------
(* Properties of GET /api/ai-insights *)

IsAIInsights == resp.handler = "handleGetAIInsights" /\ resp.status = 200
aiInsights == resp.body.aiInsights

\* <<theme, priority>> for every theme mention of a negative row
RECURSIVE NegativeMentions(_)
NegativeMentions(rows) ==
    IF rows = <<>> THEN <<>>
    ELSE LET r == Head(rows)
             ks == RowThemeKeys(r.themes)
         IN  (IF r.sentiment = "negative"
              THEN [i \in DOMAIN ks |-> <<ks[i], r.priority>>]
              ELSE <<>>) \o NegativeMentions(Tail(rows))

CountOf(nm, k) == Cardinality({i \in DOMAIN nm : nm[i][1] = k})
RECURSIVE TotalOf(_, _)
TotalOf(nm, k) ==
    IF nm = <<>> THEN 0
    ELSE (IF Head(nm)[1] = k THEN Head(nm)[2] ELSE 0) + TotalOf(Tail(nm), k)

\* C9: mostUrgentIssue is null exactly when no negative row carries a
\* non-empty theme; otherwise no theme of the negative rows has a greater
\* average priority than the returned one, none of the same average has a
\* greater count, and count is the returned theme's number of mentions in
\* negative rows.
C9_MostUrgentIssue ==
    IsAIInsights =>
        LET nm == NegativeMentions(store)
            u == aiInsights.mostUrgentIssue
            ks == {nm[i][1] : i \in DOMAIN nm}
        IN  /\ (u = Null) <=> (nm = <<>>)
            /\ u # Null =>
                  LET t == u[1].theme
                  IN  /\ t \in ks
                      /\ u[1].count = CountOf(nm, t)
                      /\ \A k \in ks :
                            TotalOf(nm, t) * CountOf(nm, k) >= TotalOf(nm, k) * CountOf(nm, t)
                      /\ \A k \in ks :
                            TotalOf(nm, t) * CountOf(nm, k) = TotalOf(nm, k) * CountOf(nm, t)
                                => CountOf(nm, k) <= CountOf(nm, t)

\* C10: trendingTopic is computed from the 10 most recent rows alone; it is
\* null exactly when none of them carries a non-empty theme; otherwise the
\* returned theme has the greatest count in the window, of the themes with
\* that count it is the first met scanning the window newest first, and count
\* and recentMentions are that count.
C10_TrendingTopic ==
    IsAIInsights =>
        LET sec == Mentions(Slice(resp.body.read, 10))
            tr == aiInsights.trendingTopic
        IN  /\ (tr = Null) <=> (sec = <<>>)
            /\ tr # Null =>
                  LET t == tr[1].theme
                  IN  /\ t \in Mentioned(sec)
                      /\ tr[1].count = Occurrences(sec, t)
                      /\ tr[1].recentMentions = Occurrences(sec, t)
                      /\ \A k \in Mentioned(sec) : Occurrences(sec, k) <= Occurrences(sec, t)
                      /\ \A k \in Mentioned(sec) :
                            (k # t /\ Occurrences(sec, k) = Occurrences(sec, t))
                                => FirstAt(sec, t) < FirstAt(sec, k)

\* The halves of the rows read, newest first, and the sentiment balance of a
\* half; the quotients are compared as fractions of integers.
RecentOf(rows) == SubSeq(rows, 1, Max(1, Len(rows) \div 2))
OlderOf(rows) == SubSeq(rows, Max(1, Len(rows) \div 2) + 1, Len(rows))
SentimentsOf(rows, s) == Cardinality({i \in DOMAIN rows : rows[i].sentiment = s})
NetOf(rows) == SentimentsOf(rows, "positive") - SentimentsOf(rows, "negative")

\* 10 * diff as the fraction num / den with den > 0
DiffNum(rows) ==
    IF OlderOf(rows) = <<>> THEN NetOf(RecentOf(rows))
    ELSE NetOf(RecentOf(rows)) * Len(OlderOf(rows)) - NetOf(OlderOf(rows)) * Len(RecentOf(rows))
DiffDen(rows) ==
    IF OlderOf(rows) = <<>> THEN Len(RecentOf(rows))
    ELSE Len(RecentOf(rows)) * Len(OlderOf(rows))

ExactTrend(rows) ==
    IF 10 * DiffNum(rows) > DiffDen(rows) THEN "improving"
    ELSE IF 10 * DiffNum(rows) < -DiffDen(rows) THEN "declining"
    ELSE "stable"

\* C11: over n >= 1 rows read newest first, the recent half is the first
\* max(1, floor(n/2)) rows and the older half the rest; with diff the
\* difference of (positives - negatives) / size of the two halves (0 for an
\* empty half), the trend is improving iff diff > 0.1, declining iff
\* diff < -0.1 and stable otherwise, a diff of exactly 0.1 or -0.1 being
\* stable; recentPositive and recentNegative count the recent half only.
C11_SentimentTrend ==
    (IsAIInsights /\ Len(resp.body.read) >= 1) =>
        /\ aiInsights.sentimentTrend.trend = ExactTrend(resp.body.read)
        /\ aiInsights.sentimentTrend.recentPositive
               = SentimentsOf(RecentOf(resp.body.read), "positive")
        /\ aiInsights.sentimentTrend.recentNegative
               = SentimentsOf(RecentOf(resp.body.read), "negative")

\* The same below 20 rows, where no two halves differ by exactly a tenth in a
\* way the rounding of the quotients can turn
C11_BelowTwenty ==
    (IsAIInsights /\ Len(resp.body.read) >= 1 /\ Len(resp.body.read) < 20) =>
        /\ aiInsights.sentimentTrend.trend = ExactTrend(resp.body.read)
        /\ aiInsights.sentimentTrend.recentPositive
               = SentimentsOf(RecentOf(resp.body.read), "positive")
        /\ aiInsights.sentimentTrend.recentNegative
               = SentimentsOf(RecentOf(resp.body.read), "negative")

\* round(num / den), halves up, for num >= 0 and den > 0
RoundedQuotient(num, den) == (2 * num + den) \div (2 * den)

ListedThemes(td) == {td[i].theme : i \in DOMAIN td}

\* C12: themeDistribution lists the themes of the highest occurrence counts
\* over all rows, five of them or all when there are fewer, each once with
\* its count, and each percentage is round(100 * count / totalMentions),
\* totalMentions being the number of mentions of all themes, listed or not.
C12_ThemeDistribution ==
    IsAIInsights =>
        LET td == aiInsights.themeDistribution
            sec == Mentions(resp.body.read)
        IN  /\ Len(td) = Min(5, Cardinality(Mentioned(sec)))
            /\ \A i, j \in DOMAIN td : i # j => td[i].theme # td[j].theme
            /\ \A i \in DOMAIN td :
                  /\ td[i].theme \in Mentioned(sec)
                  /\ td[i].count = Occurrences(sec, td[i].theme)
                  /\ td[i].percentage = RoundedQuotient(100 * td[i].count, Len(sec))
            /\ \A k \in Mentioned(sec) \ ListedThemes(td) :
                  \A i \in DOMAIN td : Occurrences(sec, k) <= td[i].count

NoData ==
    [mostUrgentIssue |-> Null, trendingTopic |-> Null,
     sentimentTrend |-> [trend |-> "neutral", description |-> "No data yet"],
     themeDistribution |-> <<>>]

\* C13: over an empty table the call succeeds with mostUrgentIssue and
\* trendingTopic null, the no-data sentimentTrend and an empty
\* themeDistribution; over a table of one or more rows none of which carries
\* a theme it succeeds with mostUrgentIssue and trendingTopic null and an
\* empty themeDistribution.
C13_NoThemes ==
    resp.handler = "handleGetAIInsights" =>
        /\ store = <<>> => resp.status = 200 /\ aiInsights = NoData
        /\ (store # <<>> /\ Mentions(store) = <<>>) =>
              /\ resp.status = 200
              /\ aiInsights.mostUrgentIssue = Null
              /\ aiInsights.trendingTopic = Null
              /\ aiInsights.themeDistribution = <<>>

C13_Witness ==
    /\ IsAIInsights
    /\ Len(store) >= 2 /\ Mentions(store) = <<>>
    /\ \E i \in DOMAIN store : store[i].themes # JSONStringify(<<>>)
    /\ aiInsights.themeDistribution = <<>>
    /\ aiInsights.sentimentTrend.trend = "stable"

C13_WitnessEmpty == IsAIInsights /\ store = <<>> /\ aiInsights = NoData

-----------------------------------------------------------------------------
(* Properties of the aggregation calls over rows with invalid themes *)

ValidThemes(r) == JSONParse(r.themes).ok /\ JSONParse(r.themes).value.t = "array"

\* The rows, those of invalid themes carrying no theme instead
Cleared(rows) ==
    [i \in DOMAIN rows |->
        IF ValidThemes(rows[i]) THEN rows[i]
        ELSE [rows[i] EXCEPT !.themes = JSONStringify(<<>>)]]

\* C14: when some row's themes text is unparseable or is no array, the
\* statistics, theme-groups and insights calls succeed, and their theme
\* counts are those of the same rows with the invalid ones carrying no theme,
\* whatever the priority and sentiment of the invalid rows.
C14_InvalidThemes ==
    (\E i \in DOMAIN store : ~ValidThemes(store[i])) =>
        /\ resp.handler = "handleGetInsights" =>
              /\ resp.status = 200
              /\ resp.body.insights.topThemes = TopThemesOf(CountThemes(Cleared(store)))
        /\ resp.handler = "handleGetThemes" =>
              /\ resp.status = 200
              /\ resp.body.themes = ThemeGroups(Cleared(store))
        /\ resp.handler = "handleGetAIInsights" =>
              /\ resp.status = 200
              /\ aiInsights.themeDistribution = ThemeDistribution(Cleared(resp.body.read))
              /\ aiInsights.mostUrgentIssue = MostUrgentIssue(Cleared(resp.body.read))
              /\ aiInsights.trendingTopic = TrendingTopic(Cleared(resp.body.read))

\* The same with the invalid rows of priority below 4 only
C14_BelowHighPriority ==
    (\A i \in DOMAIN store : ~ValidThemes(store[i]) => store[i].priority < 4)
        => C14_InvalidThemes

-----------------------------------------------------------------------------
(* Properties of the classifier gateway, read off a submission *)

IsSubmit == resp.handler = "handlePostFeedback"
IsCreated == IsSubmit /\ resp.status = 201
created == store[Len(store)]

\* The text holds a { with a } after it
HasSpan(text) ==
    \E i \in DOMAIN text, j \in DOMAIN text :
        /\ i <= j
        /\ text[i].k \in {"open", "obj"}
        /\ text[j].k \in {"close", "obj"}
        /\ (i = j => text[i].k = "obj")

\* The span is the text of one JSON value: one object, or {}
IsJson(span) ==
    \/ Len(span) = 1 /\ span[1].k = "obj"
    \/ span = <<Piece("open"), Piece("close")>>

\* The call failed, the text has no span, or the span found is no JSON
ClassifierFailed ==
    \/ ~call.ok
    \/ ~HasSpan(call.text)
    \/ ~IsJson(MatchJson(call.text))

IsDefault(r) ==
    /\ r.sentiment = "neutral"
    /\ r.category = "complaint"
    /\ r.priority = 3
    /\ r.themes = JSONStringify(<<>>)

\* C15: the gateway never raises, so the submission it serves succeeds; when
\* the classifier call fails, its text holds no {...} span, or the span found
\* is not parseable JSON, the analysis is neutral, complaint, 3, no themes.
C15_DefaultOnFailure ==
    IsSubmit =>
        /\ resp.status = 201
        /\ ClassifierFailed =>
                /\ IsDefault(created)
                /\ resp.body.feedback.themes = JsArray(<<>>)

\* The span found is no JSON, and the record holds the default analysis
C15_Witness ==
    /\ IsCreated
    /\ call.ok
    /\ HasSpan(call.text)
    /\ ~IsJson(MatchJson(call.text))
    /\ IsDefault(created)

\* The call failed / the text has no span, and the record holds the default
C15_WitnessFailedCall == IsCreated /\ ~call.ok /\ IsDefault(created)
C15_WitnessNoSpan == IsCreated /\ call.ok /\ ~HasSpan(call.text) /\ IsDefault(created)

\* The object of a text that is prose and one object
IsAnswer ==
    call.ok /\ Len(call.text) = 2 /\ call.text[1].k = "junk" /\ call.text[2].k = "obj"
answer == call.text[2].o

InDomain(x, domain) == x.t = "string" /\ x.v \in domain

\* C16: a submission with a non-empty string content and a valid source
\* inserts exactly one record and returns it, whatever the classifier does;
\* the record's sentiment and category are in their sets and its priority is
\* an integer from 1 to 5, so that the checks of the table accept it.
C16_SubmitInserts ==
    IsSubmit =>
        /\ resp.status = 201
        /\ Len(store) = posted
        /\ resp.body.feedback = WithParsedThemes(created)
        /\ created.id = lastId
        /\ created.sentiment \in validSentiments
        /\ created.category \in validCategories
        /\ created.priority \in 1..5
        /\ ChecksPass(created)

\* The three fields out of their domains or of the wrong type
C16_Witness ==
    /\ IsCreated
    /\ IsAnswer
    /\ ~InDomain(answer.sentiment, validSentiments)
    /\ ~InDomain(answer.category, validCategories)
    /\ answer.priority \in {JsNumber(1000), JsString(wordHigh)}
    /\ Len(store) = 1
    /\ resp.body.feedback.id = 1

\* The integer nearest to a number held in tenths
Nearest(tenths) == (tenths + 5) \div 10

Clamped(n) == IF n < 1 THEN 1 ELSE IF n > 5 THEN 5 ELSE n

IsNumeric == IsCreated /\ IsAnswer /\ answer.priority.t = "number"

\* C17: for a numeric priority p of the classifier the stored priority is
\* round(p) clamped into 1..5: a rounding below 1 (0 and the negative numbers
\* included) gives 1, one above 5 gives 5, and the fallback 3 is kept for
\* priorities that are not numeric.
C17_RoundedAndClamped ==
    IsNumeric => created.priority = Clamped(Nearest(answer.priority.v))

\* C17 holds for the numbers that do not round to 0
C17_AwayFromZero ==
    IsNumeric /\ Nearest(answer.priority.v) # 0 =>
        created.priority = Clamped(Nearest(answer.priority.v))

\* The themes of the record created, as the response returns them
createdThemes == resp.body.feedback.themes.v

IsTrimmed(s) == s = <<>> \/ (s[1] \notin WhiteChars /\ s[Len(s)] \notin WhiteChars)
IsLowercase(s) == \A i \in DOMAIN s : \A j \in DOMAIN UpperChars : s[i] # UpperChars[j]

\* At most 5 themes, each a trimmed lowercase string; none for a value that
\* is no list
ThemesNormalised ==
    /\ resp.body.feedback.themes.t = "array"
    /\ Len(createdThemes) <= 5
    /\ \A i \in DOMAIN createdThemes :
            /\ createdThemes[i].t = "string"
            /\ IsTrimmed(createdThemes[i].v)
            /\ IsLowercase(createdThemes[i].v)
    /\ (IsAnswer /\ answer.themes.t # "array" => createdThemes = <<>>)

\* C18: every record a submission creates has at most 5 themes, each of them
\* non-empty, trimmed and lowercase, whatever the classifier answers (empty
\* or blank strings, values that are no strings, duplicates, more than 5
\* entries); a themes value that is no list gives no themes.
C18_Themes ==
    IsCreated =>
        /\ ThemesNormalised
        /\ \A i \in DOMAIN createdThemes : createdThemes[i].v # <<>>

\* C18 without the non-emptiness of the themes
C18_ExceptNonEmpty == IsCreated => ThemesNormalised

\* Six themes answered, five kept
C18_ReachedLimit ==
    IsCreated /\ IsAnswer /\ answer.themes.t = "array" /\ Len(answer.themes.v) = 6
        /\ Len(createdThemes) = 5

\* The places of the braces of a text, and the place of its first {
Braces(text) == {i \in DOMAIN text : text[i].k # "junk"}
FirstBrace(text) == CHOOSE i \in Braces(text) : \A j \in Braces(text) : i <= j

\* The first { of the text opens a well-formed object, and text follows it
ObjectThenText(text) ==
    /\ Braces(text) # {}
    /\ text[FirstBrace(text)].k = "obj"
    /\ FirstBrace(text) < Len(text)

\* The record holds the analysis a
HoldsAnalysis(r, a) ==
    /\ r.sentiment = a.sentiment
    /\ r.category = a.category
    /\ r.priority = a.priority
    /\ r.themes = JSONStringify(a.themes)

\* The answer cut after its first object
UpToObject(ai) == [ai EXCEPT !.text = SubSeq(ai.text, 1, FirstBrace(ai.text))]

\* C19: when the text of the classifier holds a well-formed object followed
\* by further text (text with } in it, or a second object, included), the
\* gateway parses the first {...} object and returns its sanitized fields,
\* not the default: what follows the object does not change the result.
C19_FirstObject ==
    IsCreated /\ call.ok /\ ObjectThenText(call.text) =>
        /\ HoldsAnalysis(created, analyzeFeedback(UpToObject(call)))
        /\ ~IsDefault(created)

\* C19 holds when no brace follows the object
C19_ProseAfter ==
    IsCreated /\ call.ok /\ ObjectThenText(call.text)
        /\ Cardinality(Braces(call.text)) = 1 =>
            /\ HoldsAnalysis(created, analyzeFeedback(UpToObject(call)))
            /\ ~IsDefault(created)

C19_ReachedProseAfter ==
    IsCreated /\ call.ok /\ ObjectThenText(call.text) /\ Cardinality(Braces(call.text)) = 1

-----------------------------------------------------------------------------
(* Properties of the addressed columns *)

\* addressed is 0 or 1, and addressed_at is set exactly when it is 1
AddressedAtIffAddressed(r) ==
    /\ r.addressed \in {0, 1}
    /\ r.addressed_at # SqlNull <=> r.addressed = 1

\* The rows this step created
NewRows(before, after) ==
    {after[i] : i \in {j \in DOMAIN after : \A k \in DOMAIN before : before[k].id # after[j].id}}

\* C20: in every reachable state of the table, whatever the sequence and
\* interleaving of submissions, marks as addressed and as not addressed, and
\* reseeds, each record has addressed_at set if and only if it is addressed,
\* and a record is created not addressed.
C20_AddressedAt ==
    /\ [](\A i \in DOMAIN store : AddressedAtIffAddressed(store[i]))
    /\ [][\A r \in NewRows(store, store') : r.addressed = 0 /\ r.addressed_at = SqlNull]_vars

\* After a submission and a reseed, a record marked as addressed and one
\* marked as not addressed again
C20_Witness ==
    /\ posted = 1
    /\ seeded = 1
    /\ resp.handler = "handlePatchFeedback"
    /\ resp.status = 200
    /\ resp.body.feedback.addressed = 0
    /\ resp.body.feedback.addressed_at = SqlNull
    /\ \E i \in DOMAIN store :
            store[i].addressed = 1 /\ store[i].addressed_at = SqlValue(toISOString(now))

\* The columns a mark leaves alone
Frozen(r) ==
    [id |-> r.id, source |-> r.source, content |-> r.content, sentiment |-> r.sentiment,
     category |-> r.category, priority |-> r.priority, themes |-> r.themes,
     created_at |-> r.created_at]

\* The step keeps the number of records and the frozen columns of each
KeepsFrozen ==
    /\ Len(store') = Len(store)
    /\ \A i \in DOMAIN store : Frozen(store'[i]) = Frozen(store[i])

\* The step keeps every record but that of id x
KeepsOthers(x) == \A i \in DOMAIN store : store[i].id # x => store'[i] = store[i]

\* The step keeps every record there is
KeepsRecords ==
    /\ Len(store') >= Len(store)
    /\ \A i \in DOMAIN store : store'[i] = store[i]

\* A step of PATCH /api/feedback/:id: neither a submission nor a statement
\* of the reseed.  The id of the request is that of the record it answers with.
IsPatchStep == posted' = posted /\ seeding' = seeding /\ seeded' = seeded

\* C21: a mark on id X changes nothing but addressed and addressed_at of the
\* record of id X: its other columns, every other record and the number of
\* records stay, whatever else the body carries; no other operation but the
\* reseed changes a record there is.
C21_MarkFrame ==
    [][/\ IsPatchStep =>
            /\ resp'.handler = "handlePatchFeedback"
            /\ KeepsFrozen
            /\ IF resp'.status = 200 THEN KeepsOthers(resp'.body.feedback.id)
               ELSE store' = store
       /\ ~IsPatchStep /\ ~SeedDelete => KeepsRecords]_vars

\* A mark answered with the record of the submission, addressed, its other
\* columns as submitted, beside seeded records that are not addressed
C21_Witness ==
    /\ resp.handler = "handlePatchFeedback"
    /\ resp.status = 200
    /\ resp.body.feedback.addressed = 1
    /\ resp.body.feedback.content = "text"
    /\ resp.body.feedback.priority = 5
    /\ Len(store) > MaxMarkPosts
    /\ \E i \in DOMAIN store :
            /\ store[i].id = resp.body.feedback.id
            /\ Frozen(store[i]) = Frozen(NewRow(store[i].id, "github", "text",
                                               [sentiment |-> "negative", category |-> "bug",
                                                priority |-> 5],
                                               JSONStringify(<<Trim(themeUi)>>), 0))
            /\ \A j \in DOMAIN store : j # i => store[j].addressed = 0

-----------------------------------------------------------------------------
(* Properties of the rejected requests *)

\* The step answers with a client input error, has called no classifier and
\* has written nothing
RejectedAs(h) ==
    /\ resp'.handler = h
    /\ resp'.status = 400
    /\ store' = store
    /\ lastId' = lastId
    /\ call' = call

BodiesOfKind(k) == {body \in InvalidPostBodies : body.kind = k}

\* C22: a submission whose body is no well-formed object, or whose content
\* is missing, empty or no string, or whose source is missing or not one of
\* the four, and a mark whose addressed is no boolean, are rejected as a
\* client input error, which differs from an internal failure, without a
\* classifier call and without a write.
C22_Rejected ==
    [][/\ \A body \in InvalidPostBodies, ai \in InputResponses :
            ai # call /\ handlePostFeedback(body, ai) => RejectedAs("handlePostFeedback")
       /\ \A id \in InputIds, body \in InvalidPatchBodies :
            handlePatchFeedback(id, body) => RejectedAs("handlePatchFeedback")]_vars

\* C22 holds for the bodies that are JSON and not null
C22_ParsedBodies ==
    [][/\ \A body \in BodiesOfKind("object"), ai \in InputResponses :
            ai # call /\ handlePostFeedback(body, ai) => RejectedAs("handlePostFeedback")
       /\ \A id \in InputIds, body \in InvalidPatchBodies :
            handlePatchFeedback(id, body) => RejectedAs("handlePatchFeedback")]_vars

\* Rejected requests on a table with records
C22_ReachedRejections ==
    /\ store # <<>>
    /\ resp.status = 400

\* No record has the id the digits name
Missing(id) == \A i \in DOMAIN store : store[i].id # IntOf(ParseInt(id))

NotFound(h) == resp'.handler = h /\ resp'.status = 404 /\ store' = store

\* C23: GET /api/feedback/:id and a mark on an id that no record has answer
\* not found, an outcome that is neither the validation error nor the
\* internal failure, and leave every record as it was.
C23_NotFound ==
    [][\A id \in InputIds :
        Missing(id) =>
            /\ handleGetFeedbackById(id) => NotFound("handleGetFeedbackById")
            /\ \A v \in BOOLEAN :
                  handlePatchFeedback(id, PatchBody(JsBoolean(v))) =>
                      NotFound("handlePatchFeedback")]_vars

\* A mark answered not found over a table that has records
C23_Witness ==
    /\ resp.handler = "handlePatchFeedback"
    /\ resp.status = 404
    /\ resp.status \notin {400, 500}
    /\ store # <<>>
    /\ \A i \in DOMAIN store : store[i].addressed = 0
    /\ \E id \in InputIds : Missing(id)

C23_WitnessGet ==
    resp.handler = "handleGetFeedbackById" /\ resp.status = 404 /\ store # <<>>

-----------------------------------------------------------------------------
(* Properties of GET /api/feedback *)

IsList == resp.handler = "handleGetFeedback"
IsListed == IsList /\ resp.status = 200
pagination == resp.body.pagination
listed == resp.body.feedback

\* The row satisfies every filter the request supplies; the priority wanted
\* is the number parseInt reads from the parameter.
Satisfies(r, req) ==
    /\ Supplied(req.source) => r.source = req.source[1]
    /\ Supplied(req.sentiment) => r.sentiment = req.sentiment[1]
    /\ Supplied(req.category) => r.category = req.category[1]
    /\ (req.priority # Null /\ req.priority[1] # <<>>) =>
          /\ ParseInt(req.priority[1]).t = "number"
          /\ JsInt(r.priority) = ParseInt(req.priority[1])

Satisfying(req) == {store[i].id : i \in {j \in DOMAIN store : Satisfies(store[j], req)}}

RECURSIVE Concat(_)
Concat(ss) == IF ss = <<>> THEN <<>> ELSE Head(ss) \o Concat(Tail(ss))

WalkDone == walk.active /\ walk.page >= walk.totalPages

C5_PaginationFields ==
    IsListed =>
        /\ pagination.totalPages * pagination.limit >= pagination.total
        /\ (pagination.totalPages - 1) * pagination.limit < pagination.total
        /\ pagination.hasNext <=> pagination.page < pagination.totalPages
        /\ pagination.hasPrev <=> pagination.page > 1
        /\ pagination.total = Len(store)

\* A page beyond the last of three pages, the last page not full
C5_Witness ==
    /\ IsListed
    /\ pagination.total = 3
    /\ pagination.limit = 2
    /\ pagination.page > pagination.totalPages
    /\ ~pagination.hasNext
    /\ pagination.hasPrev

\* C5, the empty store
C5_WitnessEmpty == IsListed /\ pagination.total = 0 /\ pagination.totalPages = 0

\* C6: the rows returned satisfy every supplied filter, an absent filter
\* excludes nothing, and total is the number of rows of the store that
\* satisfy the same filters.
C6_FiltersAndTotal ==
    IsListed =>
        /\ \A i \in DOMAIN listed : listed[i].id \in Satisfying(resp.kept.request)
        /\ pagination.total = Cardinality(Satisfying(resp.kept.request))
        /\ Len(listed) = Min(pagination.limit, pagination.total)
        /\ Cardinality({listed[i].id : i \in DOMAIN listed}) = Len(listed)

\* Three filters at once, each of which alone keeps a row the others exclude
C6_Witness ==
    /\ IsListed
    /\ Supplied(resp.kept.request.source)
    /\ Supplied(resp.kept.request.sentiment)
    /\ resp.kept.request.priority = Nullable(<<"3">>)
    /\ Len(listed) = 1
    /\ Len(store) = 2
    /\ \E i \in DOMAIN store :
          /\ store[i].sentiment = "negative"
          /\ store[i].priority = 3
          /\ store[i].source # "github"

\* The instant a created_at text denotes, in s since the epoch of the clock
TwoDigits(text, i) == 10 * DigitValue(text[i]) + DigitValue(text[i + 1])
RECURSIVE DaysBefore(_)
DaysBefore(month) == IF month = 1 THEN 0 ELSE DaysInMonth[month - 1] + DaysBefore(month - 1)
InstantOf(text) ==
    (DaysBefore(TwoDigits(text, 6)) + TwoDigits(text, 9) - 1) * SecPerDay
        + TwoDigits(text, 12) * 3600 + TwoDigits(text, 15) * 60 + TwoDigits(text, 18)

WindowOf(dateRange) ==
    CASE dateRange = Nullable("24h") -> 24 * SecPerHour
      [] dateRange = Nullable("7d") -> 7 * SecPerDay
      [] dateRange = Nullable("30d") -> 30 * SecPerDay

\* C7: with dateRange 24h, 7d or 30d a row is returned exactly when its
\* created_at instant is at or after now minus the window; any other
\* dateRange filters nothing.
C7_DateRange ==
    IsListed =>
        LET req == resp.kept.request
            returned == {listed[i].id : i \in DOMAIN listed}
        IN  IF req.dateRange \in {Nullable("24h"), Nullable("7d"), Nullable("30d")}
            THEN returned = {store[i].id : i \in {j \in DOMAIN store :
                                InstantOf(store[j].created_at)
                                    >= resp.kept.now - WindowOf(req.dateRange)}}
            ELSE returned = {store[i].id : i \in DOMAIN store}

\* C8: whatever page and limit are supplied, the effective page is an integer
\* >= 1 (1 when absent or <= 0), the effective limit an integer in 1..100 (10
\* when absent), and offset = (page - 1) * limit a non-negative integer.
C8_PageAndLimit ==
    IsList =>
        LET req == resp.kept.request
            l == resp.kept.locals
        IN  /\ IsInteger(l.page) /\ IntOf(l.page) >= 1
            /\ req.page = Null => l.page = JsInt(1)
            /\ IsInteger(l.limit) /\ IntOf(l.limit) >= 1 /\ IntOf(l.limit) <= 100
            /\ req.limit = Null => l.limit = JsInt(10)
            /\ IsInteger(l.offset) /\ IntOf(l.offset) >= 0
            /\ IntOf(l.offset) = (IntOf(l.page) - 1) * IntOf(l.limit)

-----------------------------------------------------------------------------
(* Properties of the calls under concurrent submissions *)

\* C24: the fields of one GET /api/insights or GET /api/feedback response
\* come from one state of the store, also when a write runs during the call:
\* the sentiment counts sum to total, highPriority holds no more records
\* than total, and a page holds no more records than pagination.total.
C24_Snapshot ==
    /\ IsInsights =>
          /\ insights.sentiment["positive"] + insights.sentiment["negative"]
                + insights.sentiment["neutral"] = insights.total
          /\ Len(insights.highPriority) <= insights.total
    /\ IsListed => Len(listed) <= pagination.total

\* C24 for GET /api/feedback alone
C24_PageWithinTotal == IsListed => Len(listed) <= pagination.total

\* C24 for GET /api/insights alone
C24_CountsSumToTotal ==
    IsInsights =>
        insights.sentiment["positive"] + insights.sentiment["negative"]
            + insights.sentiment["neutral"] = insights.total

-----------------------------------------------------------------------------
(* Properties of POST /api/seed *)

\* The record holds the i-th demo entry, not addressed
IsDemo(r, i) ==
    /\ r.source = mockFeedback[i].source
    /\ r.content = mockFeedback[i].content
    /\ r.sentiment = mockFeedback[i].sentiment
    /\ r.category = mockFeedback[i].category
    /\ r.priority = mockFeedback[i].priority
    /\ r.themes = JSONStringify(mockFeedback[i].themes)
    /\ r.addressed = 0
    /\ r.addressed_at = SqlNull

\* The last request answered is a reseed that succeeded
IsReseeded == resp.handler = "handleSeed" /\ resp.status = 200 /\ seeding = 0

\* C25: once a reseed has completed with success, a retry after a run that
\* failed part-way included, the store holds the 30 demo records, one for
\* each demo entry, and none of the records before: a second reseed leaves
\* the contents the first one left.
C25_ReseedIdempotent ==
    IsReseeded =>
        /\ Len(store) = Len(mockFeedback)
        /\ \A i \in DOMAIN store : IsDemo(store[i], i)

\* A reseed that succeeded after a submission, a mark and a run in which
\* the database rejected a statement
C25_Witness ==
    /\ IsReseeded
    /\ posted = 1
    /\ seeded = 2
    /\ lastId = posted + 2 * Len(mockFeedback) - 1
    /\ Len(store) = 30

\* Two reseeds have succeeded in sequence
C25_WitnessTwice ==
    IsReseeded /\ seeded = 2 /\ lastId = 2 * Len(mockFeedback) /\ Len(store) = 30

-----------------------------------------------------------------------------
(* Properties of GET /api/themes *)

ThemesOf(r) == RowThemeKeys(r.themes)

Carries(r, t) == \E i \in DOMAIN ThemesOf(r) : ThemesOf(r)[i] = t

StoredThemes(rows) == UNION {Range(ThemesOf(rows[i])) : i \in DOMAIN rows}

RECURSIVE TimesNamed(_, _, _)
TimesNamed(rows, t, i) ==
    IF i > Len(rows) THEN 0
    ELSE Cardinality({k \in DOMAIN ThemesOf(rows[i]) : ThemesOf(rows[i])[k] = t})
         + TimesNamed(rows, t, i + 1)

\* The records that carry the theme, each once, in scan order
Carriers(rows, t) == SelectSeq(rows, LAMBDA r : Carries(r, t))

FirstCarriers(rows, t) ==
    [i \in 1..Min(ExamplesPerTheme, Len(Carriers(rows, t))) |->
        [id |-> Carriers(rows, t)[i].id, content |-> Carriers(rows, t)[i].content,
         sentiment |-> Carriers(rows, t)[i].sentiment, source |-> Carriers(rows, t)[i].source]]

GroupsAgree(g, rows) ==
    /\ {g[i].theme : i \in DOMAIN g} = StoredThemes(rows)
    /\ \A i, j \in DOMAIN g : i # j => g[i].theme # g[j].theme
    /\ \A i, j \in DOMAIN g : i < j => g[i].count >= g[j].count
    /\ \A i \in DOMAIN g :
          /\ g[i].count = TimesNamed(rows, g[i].theme, 1)
          /\ Len(g[i].feedback) <= ExamplesPerTheme
          /\ g[i].feedback = FirstCarriers(rows, g[i].theme)

IsThemeGroups == resp.handler = "handleGetThemes"

\* C26: theme-groups lists one group for each normalized non-empty theme,
\* by count descending; the count is the number of occurrences of the theme
\* over all records, and the examples are the first records that carry the
\* theme in scan order, at most 3, no record twice in a group.
C26_ThemeGroups ==
    IsThemeGroups => resp.status = 200 /\ GroupsAgree(resp.body.themes, store)

\* No record names a theme twice
NoRepeats(rows) ==
    \A i \in DOMAIN rows : \A k, l \in DOMAIN ThemesOf(rows[i]) :
        k # l => ThemesOf(rows[i])[k] # ThemesOf(rows[i])[l]

\* The same, for stores in which no record names a theme twice
C26_WithoutRepeats == NoRepeats(store) => C26_ThemeGroups

\* A theme of four records, of which the first three are listed
C26_ReachedCap ==
    /\ IsThemeGroups
    /\ NoRepeats(store)
    /\ \E i \in DOMAIN resp.body.themes :
          /\ resp.body.themes[i].count = 4
          /\ Len(resp.body.themes[i].feedback) = ExamplesPerTheme
    /\ Len(resp.body.themes) = 2

\* A record listed twice in one group
C26_ListedTwice ==
    /\ IsThemeGroups
    /\ \E i \in DOMAIN resp.body.themes :
          \E k, l \in DOMAIN resp.body.themes[i].feedback :
              k # l /\ resp.body.themes[i].feedback[k].id = resp.body.themes[i].feedback[l].id

-----------------------------------------------------------------------------
(* Properties of the router *)

\* The method and endpoint pairs of the table of README.md, :id taken from
\* RouteIds
Endpoint(method, path) == [method |-> method, path |-> path]

ReadmeEndpoints ==
    {Endpoint("GET", pathRoot), Endpoint("GET", pathFeedback), Endpoint("POST", pathFeedback),
     Endpoint("GET", pathStats), Endpoint("GET", pathInsights), Endpoint("GET", pathThemes),
     Endpoint("POST", pathSeed)}
    \cup {Endpoint(m, PathOfId(id)) : m \in {"GET", "PATCH"}, id \in RouteIds}

\* The step answers a request of the method to the path: it is a step of
\* the request, and no statement of it is left to run
Serves(e) ==
    /\ seeding' = 0
    /\ \E b \in RouteBodies, ai \in RouteAnswers :
          ServeRequest(Request(e.method, e.path, RouteQuery, b), ai)

\* The response is that of no handler: the router found no route
IsUnknownRoute(r) == r.handler = "fetch" /\ r.status = 404

\* C27: every method and endpoint pair of the README's table is dispatched
\* to a handler, not answered as an unknown route; GET /api/stats answers
\* with the aggregated statistics and GET /api/insights with the
\* AI-generated insights.
C27_ReadmeRoutes ==
    [][\A e \in ReadmeEndpoints :
          Serves(e) =>
              /\ ~IsUnknownRoute(resp')
              /\ e = Endpoint("GET", pathStats) => resp'.handler = "handleGetInsights"
              /\ e = Endpoint("GET", pathInsights) => resp'.handler = "handleGetAIInsights"]_vars

\* The pairs of the table but GET /api/stats are dispatched to a handler
C27_ExceptStats ==
    [][\A e \in ReadmeEndpoints \ {Endpoint("GET", pathStats)} :
          Serves(e) => ~IsUnknownRoute(resp')]_vars

\* GET /api/insights is answered by the statistics handler
C27_InsightsAreStatistics ==
    [][Serves(Endpoint("GET", pathInsights)) => resp'.handler = "handleGetInsights"]_vars

\* A request has been answered as an unknown route
C27_ReachedUnknown == IsUnknownRoute(resp) /\ Len(store) = 1 /\ store[1].addressed = 1

-----------------------------------------------------------------------------
(* Properties of addressed_at over repeated marks *)

\* The records before and after the step, by id
SameRecord(r, q) == r.id = q.id

\* addressed_at of every record follows the step's change of addressed
StampFollows(old, new) ==
    /\ (old.addressed = 0 /\ new.addressed = 1) => new.addressed_at = SqlValue(toISOString(now))
    /\ (old.addressed = 1 /\ new.addressed = 0) => new.addressed_at = SqlNull

\* C28: addressed_at changes only when addressed changes value: a mark from
\* false to true sets it, a mark from true to false clears it, and a mark of
\* true on a record already addressed leaves it as it was.
C28_StampOnChange ==
    [][\A i \in DOMAIN store : \A j \in DOMAIN store' :
          SameRecord(store[i], store'[j]) =>
              /\ StampFollows(store[i], store'[j])
              /\ store'[j].addressed = store[i].addressed
                    => store'[j].addressed_at = store[i].addressed_at]_vars

\* The same, but for the marks of true on a record already addressed
C28_Transitions ==
    [][\A i \in DOMAIN store : \A j \in DOMAIN store' :
          SameRecord(store[i], store'[j]) =>
              /\ StampFollows(store[i], store'[j])
              /\ (store'[j].addressed = store[i].addressed /\ store[i].addressed = 0)
                    => store'[j].addressed_at = store[i].addressed_at]_vars

-----------------------------------------------------------------------------
(* Properties of a mark among the marks of other clients *)

\* The step is the read-back of the mark in flight
IsReadBack == inflight.handler = "handlePatchFeedback" /\ inflight' = NoFlight

\* C29: the record a successful mark-addressed(id, v) returns has addressed
\* equal to v, and addressed_at non-null exactly when v is true, whatever
\* marks of the same id run beside it, between its update and its read-back
\* included.
C29_ReturnsRequested ==
    [][(IsReadBack /\ resp'.status = 200) =>
          /\ resp'.body.feedback.id = inflight.id
          /\ resp'.body.feedback.addressed = (IF inflight.addressed THEN 1 ELSE 0)
          /\ resp'.body.feedback.addressed_at # SqlNull <=> inflight.addressed]_vars

\* The record returned is the record as the store holds it at the read-back
C29_ReturnsStored ==
    [][(IsReadBack /\ resp'.status = 200) =>
          /\ resp'.body.feedback.id = inflight.id
          /\ \E i \in DOMAIN store :
                /\ store[i].id = inflight.id
                /\ resp'.body.feedback.addressed = store[i].addressed
                /\ resp'.body.feedback.addressed_at = store[i].addressed_at
          /\ resp'.body.feedback.addressed_at # SqlNull <=> resp'.body.feedback.addressed = 1]_vars

\* A mark has been answered with a record that is not addressed
C29_ReachedOther ==
    /\ resp.handler = "handlePatchFeedback"
    /\ resp.status = 200
    /\ resp.body.feedback.addressed = 0
    /\ inflight = NoFlight
    /\ \E i \in DOMAIN store : store[i].id = resp.body.feedback.id /\ store[i].addressed = 0

-----------------------------------------------------------------------------
(* Properties of the two theme rankings *)

\* The themes and counts of a themeDistribution, in its order
WithoutPercentage(d) == [i \in DOMAIN d |-> [theme |-> d[i].theme, count |-> d[i].count]]

CountsOf(d) == [i \in DOMAIN d |-> d[i].count]

\* The statistics call answers right after the insights call: both have read
\* the same store
RankedTwice ==
    /\ resp.handler = "handleGetAIInsights" /\ resp.status = 200
    /\ resp'.handler = "handleGetInsights" /\ resp'.status = 200

\* C30: on the same store the themeDistribution of the insights call and the
\* topThemes of the statistics call list the same themes with the same
\* counts in the same order, ties around the fifth position included.
C30_SameRanking ==
    [][RankedTwice =>
          WithoutPercentage(resp.body.aiInsights.themeDistribution)
              = resp'.body.insights.topThemes]_vars

\* The two lists carry the same counts in the same order, and a theme that
\* is in both has one count
C30_SameCounts ==
    [][RankedTwice =>
          /\ CountsOf(resp.body.aiInsights.themeDistribution)
                = CountsOf(resp'.body.insights.topThemes)
          /\ \A i \in DOMAIN resp.body.aiInsights.themeDistribution :
                \A j \in DOMAIN resp'.body.insights.topThemes :
                    resp.body.aiInsights.themeDistribution[i].theme
                        = resp'.body.insights.topThemes[j].theme
                    => resp.body.aiInsights.themeDistribution[i].count
                        = resp'.body.insights.topThemes[j].count]_vars

\* The insights call lists a theme the statistics call would not: six
\* themes of one mention each in two records of different instants, read
\* newest first
C30_ReachedOtherThemes ==
    /\ IsAIInsights
    /\ Len(store) = 2
    /\ store[1].created_at # store[2].created_at
    /\ Len(aiInsights.themeDistribution) = DistributionThemes
    /\ \E i \in DOMAIN aiInsights.themeDistribution :
          \A j \in DOMAIN TopThemesOf(CountThemes(store)) :
              aiInsights.themeDistribution[i].theme # TopThemesOf(CountThemes(store))[j].theme

====
